---- MODULE Spec2Model ----
(***************************************************************************)
(* Fetch state machine of the hoordu plugins: the Fanbox CreatorIterator   *)
(* (src/fanbox.py) driven by safe_fetch and the CLI commands               *)
(* (src/downloader.py), against a remote paginated feed and a              *)
(* transactional session.                                                  *)
(***************************************************************************)
EXTENDS Integers, Sequences, FiniteSets, TLC

(* ---- bounds of the model ---------------------------------------------- *)
MaxId == 12        \* remote post ids are drawn from 1..MaxId
MaxPublish == 3    \* batches of posts published in one run
MaxN == 2          \* counts given on the command line are drawn from 1..MaxN
MaxErrors == 2     \* errors raised during one run
MaxCmds == 2       \* CLI commands in one run
MaxNoBody == 1     \* remote posts without a body
MaxDelete == 1     \* remote posts deleted in one run
MaxSubs == 3       \* subscriptions of the plugin
MaxItems == 2      \* posts one fetch of the update-all command yields
MaxAtts == 2       \* attachments of one remote post
MaxLinks == 2      \* links of one remote post
MaxCalls == 3      \* calls of _to_remote_post in one run
MaxUnknown == 1    \* remote posts of a type the plugin does not know
MaxPage == 2       \* posts on one page of a list whose page size the site sets
MaxFetch == 3      \* calls of fetch one call of safe_fetch makes

(* ---- program constants ------------------------------------------------ *)
PAGE_LIMIT == 10
BOOKMARKS_LIMIT == 48
TWITTER_PAGE_LIMIT == 200

(* ---- optional values (Python None) ------------------------------------ *)
None == {}
Some(v) == {v}
Val(o) == CHOOSE v \in o : TRUE

Min(a, b) == IF a <= b THEN a ELSE b
SetMax(S) == CHOOSE x \in S : \A y \in S : y <= x
SetMin(S) == CHOOSE x \in S : \A y \in S : x <= y

VARIABLES
    remote,       \* the creator's posts on the provider
    db,           \* committed rows
    sess,         \* working transaction (committed rows plus staged changes)
    pc,           \* position of the running command
    sf,           \* locals of safe_fetch: direction, n, posts
    state,        \* CreatorIterator.state: head_id, tail_id, tail_datetime
    first_id,     \* CreatorIterator.first_id
    gen,          \* locals of the suspended _post_iterator generator
    cur,          \* the post handed to the caller by the last yield
    nerr,         \* errors raised so far
    ncmd,         \* commands started so far
    npub,         \* batches published so far
    ndel,         \* posts deleted so far
    hist,         \* history of the run, read by the properties only
    plugin,       \* the plugin the command line names
    sweep,        \* the update-all command: its subscriptions and its position
    malformed,    \* ids of the remote posts whose type the plugin does not know
    lib,          \* one remote post and its local rows, as _to_remote_post sees them
    safe,         \* safe_fetch called with an iterator that may have no subscription
    its           \* the iterators of two subscriptions of the plugin, both open

fetchVars == <<remote, db, sess, pc, sf, state, first_id, gen, cur, nerr, ncmd, npub,
               ndel, hist, plugin, malformed, lib, safe, its>>

commandVars == <<remote, db, sess, pc, sf, state, first_id, gen, cur, nerr, ncmd, npub,
                 ndel, hist, plugin, malformed, sweep, safe, its>>

vars == <<remote, db, sess, pc, sf, state, first_id, gen, cur, nerr, ncmd, npub, ndel,
          hist, plugin, sweep, malformed, lib, safe, its>>

iteratorVars == <<remote, db, sess, pc, sf, state, first_id, gen, cur, nerr, ncmd, npub,
                  ndel, hist, plugin, sweep, malformed, lib, its>>

(* ---- the remote feed --------------------------------------------------- *)
\* publishedDatetime of a post, in seconds; ids and timestamps grow together
PublishedAt(id) == 60 * id

RemoteIds == {p.id : p \in remote}

\* the posts of S, newest first (ids are unique)
SortDesc(S) ==
    [k \in 1..Cardinality(S) |->
        CHOOSE p \in S : Cardinality({q \in S : q.id > p.id}) = k - 1]

\* post.listCreator: the posts with id <= maxId and
\* publishedDatetime <= maxPublishedDatetime, newest first, at most limit
Matching(params) ==
    {p \in remote :
        /\ params.maxId = None \/ p.id <= Val(params.maxId)
        /\ params.maxPublishedDatetime = None
              \/ p.publishedDatetime <= Val(params.maxPublishedDatetime)}

ListCreator(params) ==
    LET all == SortDesc(Matching(params))
        k == IF params.limit <= 0 THEN 0 ELSE Min(params.limit, Len(all))
    IN [items |-> SubSeq(all, 1, k), nextUrl |-> Len(all) > k]

(* ---- the session -------------------------------------------------------- *)
EmptyState == [head_id |-> None, tail_id |-> None, tail_datetime |-> None]

EmptyDb == [posts |-> {}, files |-> {}, present |-> {}, thumb_present |-> {},
            feed |-> {}, state |-> EmptyState, enabled |-> TRUE]

\* (changed: the commit leaves the committed rows as they were)
CommitNothing(s) == db

\* (changed: every commit also stores the cursor of the running iterator)
CommitWithCursor(s) ==
    [s EXCEPT !.state = [state EXCEPT !.head_id = IF first_id # {} THEN first_id ELSE @]]

\* session.commit(): the committed rows become those of the session
Commit(s) == s

\* (changed: the rollback keeps the staged changes)
RollbackNothing(s) == s

\* core.rollback(): the session goes back to the committed rows
Rollback(s) == db

\* (changed: the flush discards the staged changes)
FlushDiscards(s) == db

\* core.flush(): the staged changes are written inside the open transaction
Flush(s) == s

\* _to_remote_post for a post with one image: the RemotePost and the File are
\* looked up or created, and only the missing halves are downloaded
NeedOrig(s, id, preview) == id \notin s.present /\ ~preview
NeedThumb(s, id) == id \notin s.thumb_present

ToRemotePost(s, post, preview) ==
    [s EXCEPT !.posts = @ \cup {post.id},
              !.files = @ \cup {post.id},
              !.present = IF NeedOrig(s, post.id, preview) THEN @ \cup {post.id} ELSE @,
              !.thumb_present = IF NeedThumb(s, post.id) THEN @ \cup {post.id} ELSE @]

\* _to_remote_post raising in a download: the RemotePost and the File were
\* added and flushed, nothing was imported
ToRemotePostFailed(s, post) ==
    [s EXCEPT !.posts = @ \cup {post.id}, !.files = @ \cup {post.id}]

(* ---- CreatorIterator ---------------------------------------------------- *)
\* fetch, before its loop, and the first lines of _post_iterator
FetchDirection(direction, st) ==
    IF direction = "newer" /\ st.tail_id = None THEN "older" ELSE direction

\* (changed: the count is dropped whenever newer was asked for)
FetchCountUnlimited(direction, n, st) ==
    IF direction = "newer" THEN None ELSE n

\* (changed: the count is kept when newer was asked for)
FetchCountKept(direction, n, st) == n

FetchCount(direction, n, st) ==
    IF direction = "newer" /\ st.tail_id # None THEN None ELSE n

\* (changed: an older walk starts at the newest post, whatever the tail)
PostIteratorFromTop(direction, n, st) ==
    LET head == (direction = "newer")
    IN [direction |-> direction,
        n |-> n,
        min_id |-> IF head /\ st.head_id # None THEN st.head_id ELSE None,
        max_id |-> None,
        max_datetime |-> None,
        total |-> 0,
        first_iteration |-> TRUE,
        posts |-> <<>>,
        i |-> 0,
        nextUrl |-> FALSE,
        params |-> None]

PostIterator(direction, n, st) ==
    LET head == (direction = "newer")
    IN [direction |-> direction,
        n |-> n,
        min_id |-> IF head /\ st.head_id # None THEN st.head_id ELSE None,
        max_id |-> IF ~head THEN st.tail_id ELSE None,
        max_datetime |-> IF ~head THEN st.tail_datetime ELSE None,
        total |-> 0,
        first_iteration |-> TRUE,
        posts |-> <<>>,
        i |-> 0,
        nextUrl |-> FALSE,
        params |-> None]

CallFetch(direction, n, st) ==
    PostIterator(FetchDirection(direction, st), FetchCount(direction, n, st), st)

\* (changed: every page request asks for a full page)
PageSizeFull(g) == PAGE_LIMIT

\* the query of one page request
PageSize(g) == IF g.n = None THEN PAGE_LIMIT ELSE Min(Val(g.n) - g.total, PAGE_LIMIT)

\* (changed: the query asks for the posts up to and including the cursor)
PageParamsInclusive(g) ==
    [limit |-> PageSize(g),
     maxId |-> IF g.max_id # None THEN g.max_id ELSE None,
     maxPublishedDatetime |->
        IF g.max_id # None THEN g.max_datetime ELSE None]

PageParams(g) ==
    [limit |-> PageSize(g),
     maxId |-> IF g.max_id # None THEN Some(Val(g.max_id) - 1) ELSE None,
     maxPublishedDatetime |->
        IF g.max_id # None THEN Some(Val(g.max_datetime) - 1) ELSE None]

\* the first post of the first page is remembered as the candidate head
Candidate(g, st, fid, items) ==
    IF g.first_iteration /\ (st.head_id = None \/ g.direction = "newer")
    THEN Some(items[1].id) ELSE fid

\* (changed: the walk goes on past head)
IsBoundaryNever(g, post) == FALSE

\* the walk stops at the first post that is not newer than head
IsBoundary(g, post) == g.min_id # None /\ post.id <= Val(g.min_id)

\* after the yield: the locals of the walk move past the post
Advance(g, post) ==
    [g EXCEPT !.max_id = Some(post.id - 1),
              !.max_datetime = Some(post.publishedDatetime),
              !.total = @ + 1]

\* (changed: head_id follows the candidate after every post)
StateAfterPostEager(st, g, post) ==
    LET h == IF first_id # None THEN first_id ELSE st.head_id
    IN IF g.direction = "older"
       THEN [st EXCEPT !.head_id = h,
                       !.tail_id = Some(post.id),
                       !.tail_datetime = Some(post.publishedDatetime)]
       ELSE [st EXCEPT !.head_id = h]

\* (changed: the tail follows the post on a newer walk too)
StateAfterPostAnyDirection(st, g, post) ==
    [st EXCEPT !.tail_id = Some(post.id),
               !.tail_datetime = Some(post.publishedDatetime)]

\* (changed: the tail stays where it was)
StateAfterPostNoTail(st, g, post) == st

\* after the yield: an older walk moves the tail to the post
StateAfterPost(st, g, post) ==
    IF g.direction = "older"
    THEN [st EXCEPT !.tail_id = Some(post.id),
                    !.tail_datetime = Some(post.publishedDatetime)]
    ELSE st

CountReached(g) == g.n # None /\ g.total >= Val(g.n)

\* the posts one call of fetch yields when nothing raises: the walk of
\* _post_iterator over the remote feed as it is now
RECURSIVE Walk(_, _), WalkPage(_, _)
Walk(g, acc) ==
    LET body == ListCreator(PageParams(g))
    IN IF Len(body.items) = 0 THEN acc
       ELSE WalkPage([g EXCEPT !.posts = body.items, !.i = 1,
                               !.nextUrl = body.nextUrl], acc)

WalkPage(g, acc) ==
    LET post == g.posts[g.i]
        acc2 == IF post.body THEN acc \cup {post.id} ELSE acc
        g2 == Advance(g, post)
    IN IF IsBoundary(g, post) THEN acc
       ELSE IF CountReached(g2) THEN acc2
       ELSE IF g.i < Len(g.posts) THEN WalkPage([g2 EXCEPT !.i = @ + 1], acc2)
       ELSE IF ~g.nextUrl THEN acc2
       ELSE Walk([g2 EXCEPT !.first_iteration = FALSE], acc2)

\* no command is running: no iterator, no generator, no safe_fetch frame
NoSafeFetch == [direction |-> "newer", n |-> None, posts |-> {}]
NoIterator == EmptyState
NoGenerator == PostIterator("newer", None, EmptyState)

\* history of the running command, read by the properties only:
\*   head0     head_id stored when the command started
\*   want      the posts the first call of fetch would yield
\*   retried   safe_fetch called fetch again
\*   lastCall  the post yielded last by the running call of fetch
\*   call      the posts yielded by the running call of fetch
\*   n0        the count the command asked for
\*   unknown   the post of unknown type the running call of fetch raised at
\* and of the run:
\*   lastOlder the post yielded last by an older walk, since the last newer walk
\*   lastDone  the post yielded last by the older walks that returned, since
\*             the last newer walk
\*   drained   an older fetch ended at a page with no next-page URL
\*   redone    an original that was present was downloaded again
\*   cancelled what the caller that stopped pulling left behind: the post
\*             handed to it last, the posts its fetch was to yield, the
\*             direction and count it asked for, whether safe_fetch had
\*             called fetch again, the remote feed
\*   rerun     the command asks again for what the previous command asked, an
\*             older fetch that returned without a retry, and nothing was
\*             published in between
NoCommand == [head0 |-> None, want |-> {}, retried |-> FALSE, rerun |-> FALSE,
              lastCall |-> None, call |-> {}, n0 |-> None, unknown |-> None]

\* the process of the command ends
Exit ==
    /\ pc' = "idle"
    /\ sf' = NoSafeFetch
    /\ state' = NoIterator
    /\ first_id' = None
    /\ gen' = NoGenerator
    /\ cur' = None

\* (changed: the state is not written onto the subscription)
StoreStateSkipped(s, st) == s

\* subscription.state = self.state.to_json(); session.add(subscription)
StoreState(s, st) == [s EXCEPT !.state = st]

\* the end of fetch, after the loop: the candidate becomes head_id, the state
\* is written onto the subscription and committed; safe_fetch returns and the
\* command ends
HeadAtEnd(st, fid) == IF fid # None THEN [st EXCEPT !.head_id = fid] ELSE st

EndFetch(st, s, why) ==
    LET s2 == StoreState(s, HeadAtEnd(st, first_id))
    IN /\ sess' = s2
       /\ db' = Commit(s2)
       /\ Exit
       /\ hist' = [hist EXCEPT !.cmd = NoCommand, !.ended = why,
                               !.prev = IF sf.direction = "older" /\ ~hist.cmd.retried
                                        THEN sf.n ELSE None,
                               !.lastDone = IF gen.direction = "older"
                                                 /\ hist.cmd.lastCall # None
                                            THEN hist.cmd.lastCall ELSE @,
                               !.drained = @ \/ (why = "nonext" /\ gen.direction = "older")]

\* _post_iterator after its yield: cursor bookkeeping of one post, then the
\* next post, the next page or the end of the walk (s: the session, d: the
\* committed rows at this point)
AfterPost(post, s, d) ==
    LET st == StateAfterPost(state, gen, post)
        g == Advance(gen, post)
    IN IF CountReached(g)
       THEN EndFetch(st, s, "count")
       ELSE IF gen.i < Len(gen.posts)
       THEN /\ gen' = [g EXCEPT !.i = @ + 1]
            /\ state' = st /\ sess' = s /\ db' = d /\ pc' = "item"
            /\ cur' = None
            /\ UNCHANGED <<first_id, sf, hist>>
       ELSE IF ~gen.nextUrl
       THEN EndFetch(st, s, "nonext")
       ELSE /\ gen' = [g EXCEPT !.first_iteration = FALSE]
            /\ state' = st /\ sess' = s /\ db' = d /\ pc' = "page"
            /\ cur' = None
            /\ UNCHANGED <<first_id, sf, hist>>

(* ---- BookmarkIterator (pixiv), TweetIterator (twitter) ------------------- *)
Plugins == {"fanbox", "pixiv", "twitter"}

\* the state of the iterator of a new subscription
NewState(p) ==
    IF p = "pixiv" THEN [head_id |-> None, tail_id |-> None, offset |-> 0]
    ELSE IF p = "twitter" THEN [head_id |-> None, tail_id |-> None]
    ELSE IF p = "twitter_legacy" THEN [head_id |-> None, tail_id |-> None]
    ELSE IF p = "fantia" THEN [head_id |-> None, tail_id |-> None]
    ELSE IF p = "patreon" THEN [head_timestamp |-> None]
    ELSE IF p = "nijie" THEN [head_id |-> None, tail_id |-> None, tail_page |-> 1]
    ELSE EmptyState

\* the user's bookmarks from offset on, newest first, at most limit
Bookmarks(params) ==
    LET all == SortDesc(remote)
        from == params.offset + 1
        to == Min(params.offset + params.limit, Len(all))
    IN IF params.limit <= 0 \/ from > Len(all) THEN <<>> ELSE SubSeq(all, from, to)

\* BookmarkIterator._iterator, up to its loop
BookmarkIterator(direction, n, st) ==
    LET head == (direction = "newer")
    IN [direction |-> direction,
        n |-> n,
        head_id |-> IF head /\ st.head_id # None THEN st.head_id ELSE None,
        tail_id |-> IF ~head /\ st.tail_id # None THEN st.tail_id ELSE None,
        offset |-> IF head THEN 0 ELSE st.offset,
        total |-> 0,
        first_iteration |-> TRUE,
        posts |-> <<>>,
        i |-> 0]

BookmarksPageSize(g) ==
    IF g.n = None THEN BOOKMARKS_LIMIT ELSE Min(Val(g.n) - g.total, BOOKMARKS_LIMIT)

\* GetUserTimeline: the tweets with since_id < id <= max_id, newest first, at
\* most count
Timeline(max_id, since_id, count) ==
    LET all == SortDesc({t \in remote :
                            /\ max_id = None \/ t.id <= Val(max_id)
                            /\ since_id = None \/ t.id > Val(since_id)})
    IN IF count <= 0 THEN <<>> ELSE SubSeq(all, 1, Min(count, Len(all)))

\* TweetIterator._feed_iterator and the first lines of _page_iterator
FeedIterator(direction, limit, st) ==
    LET head == (direction = "newer")
    IN [direction |-> direction,
        limit |-> limit,
        page_size |-> IF limit = None THEN TWITTER_PAGE_LIMIT
                      ELSE Min(Val(limit), TWITTER_PAGE_LIMIT),
        since_id |-> IF head THEN st.head_id ELSE None,
        max_id |-> IF ~head /\ st.tail_id # None
                   THEN Some(Val(st.tail_id) - 1) ELSE None,
        total |-> 0,
        first_iteration |-> TRUE,
        posts |-> <<>>,
        i |-> 0]

\* plugin.get_iterator(sub) and the first lines of its fetch
GetIterator(direction, n, st) ==
    IF plugin = "pixiv"
    THEN BookmarkIterator(FetchDirection(direction, st), FetchCount(direction, n, st), st)
    ELSE IF plugin = "twitter"
    THEN FeedIterator(FetchDirection(direction, st), FetchCount(direction, n, st), st)
    ELSE CallFetch(direction, n, st)

FirstPage ==
    IF plugin = "pixiv" THEN "b_page"
    ELSE IF plugin = "twitter" THEN "t_page" ELSE "page"

\* the count the running iterator works with
Count(g) == IF plugin = "twitter" THEN g.limit ELSE g.n

\* post and files of a bookmark or a tweet, staged in the session
Staged(s, id) == [s EXCEPT !.posts = @ \cup {id}]

\* the end of fetch in pixiv and twitter: the candidate becomes head_id and
\* the state is written onto the subscription; fetch does not commit
ReturnFromFetch(st, fid, s, d, why) ==
    /\ state' = HeadAtEnd(st, fid)
    /\ first_id' = None
    /\ sess' = StoreState(s, state')
    /\ db' = d
    /\ cur' = None
    /\ pc' = "returned"
    /\ hist' = [hist EXCEPT !.ended = why]
    /\ UNCHANGED <<sf, gen>>

\* BookmarkIterator._iterator: on to the next bookmark or the next page
BookmarkAfter(g, st, s, d) ==
    /\ IF g.i < Len(g.posts)
       THEN gen' = [g EXCEPT !.i = @ + 1] /\ pc' = "b_item"
       ELSE gen' = [g EXCEPT !.first_iteration = FALSE] /\ pc' = "b_page"
    /\ state' = st /\ sess' = s /\ db' = d
    /\ cur' = None
    /\ UNCHANGED <<first_id, sf, hist>>

\* TweetIterator.fetch after a tweet, then _page_iterator after its yield
TweetAfter(g0, st0, fid, s, d) ==
    LET tweet == g0.posts[g0.i]
        st == IF g0.direction = "older"
              THEN [st0 EXCEPT !.tail_id = Some(tweet.id)] ELSE st0
        g == [g0 EXCEPT !.first_iteration = FALSE,
                        !.max_id = Some(tweet.id - 1),
                        !.total = @ + 1]
    IN IF g.limit # None /\ g.total >= Val(g.limit)
       THEN ReturnFromFetch(st, fid, s, d, "count")
       ELSE /\ IF g.i < Len(g.posts)
               THEN gen' = [g EXCEPT !.i = @ + 1] /\ pc' = "t_item"
               ELSE gen' = g /\ pc' = "t_page"
            /\ state' = st /\ sess' = s /\ db' = d
            /\ first_id' = fid
            /\ cur' = None
            /\ UNCHANGED <<sf, hist>>

(* ---- safe_fetch ------------------------------------------------------------ *)
\* safe_fetch is not running
NoSafe == [pc |-> "off", subscription |-> TRUE, n |-> None, posts |-> 0,
           calls |-> 0, prompts |-> 0, answer |-> "", enabled |-> TRUE]

\* no two iterators are open
NoIterators == <<>>

(* ---- the update-all command ---------------------------------------------- *)
\* no update-all command is running
NoSweep == [pc |-> "off", i |-> 0, subs |-> <<>>, prompts |-> 0, errors |-> 0]

\* a subscription of the plugin, as the update-all command sees it:
\*   enabled   Subscription.enabled, committed
\*   feed      number of posts committed in its feed
\*   staged    number of posts staged in the session and not committed
\* and, read by the properties only:
\*   was       enabled when the loop reached it
\*   fetches   calls of fetch made for it
\*   failed    an error of its fetch was raised out of safe_fetch
\*   asked     the user was asked what to do about it
Sub(enabled) ==
    [enabled |-> enabled, feed |-> 0, staged |-> 0,
     was |-> FALSE, fetches |-> 0, failed |-> FALSE, asked |-> FALSE]

\* (changed: the loop ends after the first subscription it handles)
AbortSweep(i) == MaxSubs + 1

\* for sub in subs: the loop goes on with the next subscription
NextSub(i) == i + 1

(* ---- _to_remote_post ------------------------------------------------------ *)
Range(q) == {q[k] : k \in 1..Len(q)}

RECURSIVE SeqsUpTo(_, _)
SeqsUpTo(S, k) ==
    IF k = 0 THEN {<<>>}
    ELSE SeqsUpTo(S, k - 1) \cup {Append(q, x) : q \in {r \in SeqsUpTo(S, k - 1) : Len(r) = k - 1}, x \in S}

Urls == {"a", "b"}

\* the remote posts _to_remote_post is given:
\*   type   post.type
\*   atts   ids of post.body.images (image), of post.body.files (file), of the
\*          image blocks (article), in order; the ids of one post differ
\*   links  urls of the links of the paragraph blocks (article), in order
\*   cover  post.coverImageUrl is not None
\* the paragraph blocks of an article come before its image blocks
Post(type, n, links, cover) ==
    [id |-> 1, type |-> type, atts |-> [j \in 1..n |-> j], links |-> links, cover |-> cover]

Posts ==
    {Post("image", n, <<>>, FALSE) : n \in 1..MaxAtts}
    \cup {Post("file", n, <<>>, c) : n \in 1..MaxAtts, c \in BOOLEAN}
    \cup {Post("article", n, l, FALSE) : n \in 0..1, l \in SeqsUpTo(Urls, MaxLinks)}
    \cup {Post("text", 0, <<>>, FALSE)}

\* rows of the session or of the database: the RemotePosts of the source, each
\* with its Files and its Related links; read by the properties only:
\*   full   a call with preview off ended for this RemotePost without raising
NoRows == [posts |-> <<>>]

NewRemotePost(post) ==
    [original_id |-> post.id, files |-> <<>>, related |-> <<>>, full |-> FALSE]

NewFile(id, order) ==
    [metadata_ |-> id, remote_order |-> order, present |-> FALSE, thumb_present |-> FALSE]

\* (changed: the lookup by (source, original_id) finds nothing)
QueryNothing(s, main_id) == {}

\* session.query(RemotePost).filter(source_id, original_id == main_id)
Query(s, main_id) == {k \in 1..Len(s.posts) : s.posts[k].original_id = main_id}

\* 'i-{}'.format(image.id), 'f-{}'.format(rfile.id)
FileId(type, a) == <<IF type = "file" THEN "f" ELSE "i", a>>

\* (changed: no File is found by its metadata_)
CurrentFilesNothing(files, id) == {}

\* current_files.get(id), current_files = {file.metadata_: file for file in files}
CurrentFiles(files, id) == {k \in 1..Len(files) : files[k].metadata_ = id}

\* (changed: the original is asked for in a preview too)
need_orig_in_preview(file, preview) == ~file.present

need_orig(file, preview) == ~file.present /\ ~preview

\* (changed: the thumbnail is asked for also when it is present)
need_thumb_always(file, post) == post.type # "file" \/ post.cover

need_thumb(file, post) ==
    IF post.type = "file" THEN ~file.thumb_present /\ post.cover ELSE ~file.thumb_present

\* session.import_file(file, orig, thumb, move=True): the content store takes
\* the files it is given and the presence flags of the File follow
import_file(file, orig, thumb) ==
    [file EXCEPT !.present = @ \/ orig, !.thumb_present = @ \/ thumb]

\* the loop over the attachments, from position p on; stop is the position
\* whose download raises; r gathers the RemotePost and what the call did:
\*   orig, thumb   positions whose original, thumbnail was downloaded
\*   imported      positions given to import_file
\*   created       positions a File was created for
RECURSIVE Attachments(_, _, _, _, _, _)
Attachments(r, current_files, post, preview, p, stop) ==
    IF p > Len(post.atts) THEN r
    ELSE LET id == FileId(post.type, post.atts[p])
             found == CurrentFiles(current_files, id)
             k == IF found = {} THEN Len(r.remote_post.files) + 1 ELSE SetMax(found)
             file == IF found = {} THEN NewFile(id, p)
                     ELSE [r.remote_post.files[k] EXCEPT !.remote_order = p]
             no == need_orig(file, preview)
             nt == need_thumb(file, post)
             raised == p = stop /\ (no \/ nt)
             file2 == IF raised \/ ~(no \/ nt) THEN file ELSE import_file(file, no, nt)
             files == IF found = {} THEN Append(r.remote_post.files, file2)
                      ELSE [r.remote_post.files EXCEPT ![k] = file2]
             r2 == [r EXCEPT !.remote_post.files = files,
                             !.created = IF found = {} THEN @ \cup {p} ELSE @,
                             !.orig = IF no /\ ~raised THEN @ \cup {p} ELSE @,
                             !.thumb = IF nt /\ ~raised THEN @ \cup {p} ELSE @,
                             !.imported = IF (no \/ nt) /\ ~raised THEN @ \cup {p} ELSE @,
                             !.raised = raised]
         IN IF raised THEN r2
            ELSE Attachments(r2, current_files, post, preview, p + 1, stop)

\* the loop over the links of the paragraph blocks
RECURSIVE Links(_, _, _)
Links(related, current_urls, links) ==
    IF links = <<>> THEN related
    ELSE Links(IF Head(links) \notin Range(current_urls)
               THEN Append(related, Head(links)) ELSE related,
               current_urls, Tail(links))

\* one call of _to_remote_post(post, preview=preview) on the session s: the
\* session after the call and what the call did
ToRemotePostCall(s, post, preview, stop) ==
    LET found == Query(s, post.id)
        k == IF found = {} THEN Len(s.posts) + 1 ELSE SetMin(found)
        remote_post == IF found = {} THEN NewRemotePost(post) ELSE s.posts[k]
        linked == IF post.type = "article"
                  THEN [remote_post EXCEPT
                          !.related = Links(@, remote_post.related, post.links)]
                  ELSE remote_post
        r == Attachments([remote_post |-> linked, created |-> {}, orig |-> {},
                          thumb |-> {}, imported |-> {}, raised |-> FALSE],
                         remote_post.files, post, preview, 1, stop)
        done == [r.remote_post EXCEPT !.full = @ \/ (~preview /\ ~r.raised)]
        many == [remote_post |-> remote_post, created |-> {}, orig |-> {},
                 thumb |-> {}, imported |-> {}, raised |-> TRUE]
    IN IF Cardinality(found) > 1
       THEN [sess |-> s, did |-> many]
       ELSE [sess |-> [s EXCEPT !.posts = IF found = {} THEN Append(@, done)
                                           ELSE [@ EXCEPT ![k] = done]],
             did |-> [r EXCEPT !.remote_post = done]]

\* (changed: the flush in _to_remote_post commits)
SessionFlushCommits(d, s) == s

\* session.flush() in _to_remote_post: the rows are written inside the open
\* transaction, the committed rows stay
SessionFlush(d, s) == d

\* nothing was called yet
NoCall == [preview |-> FALSE, before |-> NoRows, did |-> None]

NoLibrary == [post |-> Post("text", 0, <<>>, FALSE), db |-> NoRows, sess |-> NoRows,
              pc |-> "off", calls |-> 0, last |-> NoCall]

\* the step of a command that calls _to_remote_post: the RemotePost is handed
\* to the caller (pc "yielded", "downloaded") or the call raises
Call(preview, then) ==
    /\ lib.pc = "idle"
    /\ lib.calls < MaxCalls
    /\ \E stop \in 0..Len(lib.post.atts) :
          LET c == ToRemotePostCall(lib.sess, lib.post, preview, stop)
          IN /\ stop # 0 => c.did.raised
             /\ lib' = [lib EXCEPT !.sess = c.sess,
                                   !.db = SessionFlush(@, c.sess),
                                   !.pc = IF c.did.raised THEN "raised" ELSE then,
                                   !.calls = @ + 1,
                                   !.last = [preview |-> preview, before |-> lib.sess,
                                             did |-> Some(c.did)]]
    /\ UNCHANGED commandVars

(* ---- actions ------------------------------------------------------------ *)
InitCommands(p) ==
    /\ plugin = p
    /\ remote = {}
    /\ db = [EmptyDb EXCEPT !.state = NewState(p)]
    /\ sess = db
    /\ pc = "idle"
    /\ sf = NoSafeFetch
    /\ state = NoIterator
    /\ first_id = None
    /\ gen = NoGenerator
    /\ cur = None
    /\ nerr = 0
    /\ ncmd = 0
    /\ npub = 0
    /\ ndel = 0
    /\ hist = [cmd |-> NoCommand, ended |-> "none", prev |-> None, lastOlder |-> None,
               lastDone |-> None,
               drained |-> FALSE, redone |-> FALSE, cancelled |-> None]

Init == InitCommands("fanbox") /\ sweep = NoSweep /\ malformed = {} /\ safe = NoSafe /\ its = NoIterators /\ lib = NoLibrary

\* the creator publishes k posts between two commands: new ids at the newest
\* end of the feed
NewPosts(k, body) ==
    LET top == IF remote = {} THEN 0 ELSE SetMax(RemoteIds)
    IN {[id |-> top + j, body |-> body, publishedDatetime |-> PublishedAt(top + j)] :
            j \in 1..k}

Publish ==
    /\ pc = "idle"
    /\ npub < MaxPublish
    /\ \E k \in {1, PAGE_LIMIT}, body \in BOOLEAN :
          /\ Cardinality(remote) + k <= MaxId
          /\ body \/ (k = 1 /\ Cardinality({p \in remote : ~p.body}) < MaxNoBody)
          /\ remote' = remote \cup NewPosts(k, body)
    /\ npub' = npub + 1
    /\ hist' = [hist EXCEPT !.prev = None]
    /\ UNCHANGED <<db, sess, pc, sf, state, first_id, gen, cur, nerr, ncmd, ndel, plugin, sweep, malformed, lib, safe, its>>

\* the creator deletes the newest post
Delete ==
    /\ pc = "idle"
    /\ ndel < MaxDelete
    /\ remote # {}
    /\ remote' = {p \in remote : p.id # SetMax(RemoteIds)}
    /\ ndel' = ndel + 1
    /\ hist' = [hist EXCEPT !.prev = None]
    /\ UNCHANGED <<db, sess, pc, sf, state, first_id, gen, cur, nerr, ncmd, npub, plugin, sweep, malformed, lib, safe, its>>

\* a CLI command: get_iterator(sub), then safe_fetch(plugin, it, direction, n)
Command(direction, n) ==
    /\ pc = "idle"
    /\ ncmd < MaxCmds
    /\ ncmd' = ncmd + 1
    /\ state' = db.state
    /\ first_id' = None
    /\ sf' = [direction |-> direction, n |-> n, posts |-> {}]
    /\ gen' = GetIterator(direction, n, db.state)
    /\ pc' = FirstPage
    /\ hist' = [hist EXCEPT !.cmd = [head0 |-> db.state.head_id,
                                     want |-> IF plugin = "fanbox"
                                              THEN Walk(gen', {}) ELSE {},
                                     retried |-> FALSE,
                                     rerun |-> direction = "older" /\ n # None
                                                 /\ hist.prev = n,
                                     lastCall |-> None,
                                     call |-> {},
                                     n0 |-> n,
                                     unknown |-> None],
                            !.ended = "none",
                            !.lastOlder = IF gen'.direction = "newer" THEN None ELSE @,
                            !.lastDone = IF gen'.direction = "newer" THEN None ELSE @]
    /\ UNCHANGED <<remote, db, sess, cur, nerr, npub, ndel, plugin, sweep, malformed, lib, safe, its>>

Update == Command("newer", None)
Fetch == \E n \in 1..MaxN : Command("older", Some(n))
RFetch == \E n \in 1..MaxN : Command("newer", Some(n))

\* _post_iterator: one page request
GetPage ==
    /\ pc = "page"
    /\ LET params == PageParams(gen)
           body == ListCreator(params)
       IN IF Len(body.items) = 0
          THEN EndFetch(state, sess, "empty")
          ELSE /\ first_id' = Candidate(gen, state, first_id, body.items)
               /\ gen' = [gen EXCEPT !.params = Some(params), !.posts = body.items,
                                     !.i = 1, !.nextUrl = body.nextUrl]
               /\ pc' = "item"
               /\ UNCHANGED <<db, sess, state, sf, cur, hist>>
    /\ UNCHANGED <<remote, nerr, ncmd, npub, ndel, plugin, sweep, malformed, lib, safe, its>>

\* response.raise_for_status() raises
GetPageError ==
    /\ pc = "page"
    /\ nerr < MaxErrors
    /\ nerr' = nerr + 1
    /\ pc' = "error"
    /\ UNCHANGED <<remote, db, sess, sf, state, first_id, gen, cur, ncmd, npub, ndel, hist, plugin, sweep, malformed, lib, safe, its>>

\* the post goes to _to_remote_post and its type is none of image, file,
\* article, text
UnknownType(g, post) == ~IsBoundary(g, post) /\ post.body /\ post.id \in malformed

\* _post_iterator: the next post of the page, up to the yield of fetch
NextPost ==
    /\ pc = "item"
    /\ ~UnknownType(gen, gen.posts[gen.i])
    /\ LET post == gen.posts[gen.i]
       IN IF IsBoundary(gen, post)
          THEN EndFetch(state, sess, "boundary")
          ELSE IF post.body
          THEN /\ sess' = ToRemotePost(sess, post, FALSE)
               /\ cur' = Some(post)
               /\ sf' = [sf EXCEPT !.posts = @ \cup {post.id}]
               /\ pc' = "yielded"
               /\ hist' = [hist EXCEPT
                     !.cmd.lastCall = Some(post.id),
                     !.cmd.call = @ \cup {post.id},
                     !.lastOlder = IF gen.direction = "older" THEN Some(post.id) ELSE @,
                     !.redone = @ \/ (NeedOrig(sess, post.id, FALSE)
                                        /\ post.id \in sess.present)]
               /\ UNCHANGED <<db, state, first_id, gen>>
          ELSE AfterPost(post, sess, db)
    /\ UNCHANGED <<remote, nerr, ncmd, npub, ndel, plugin, sweep, malformed, lib, safe, its>>

\* _to_remote_post raises NotImplementedError('unknown post type'): the
\* RemotePost was added to the session, nothing else was done
NextPostUnknown ==
    /\ pc = "item"
    /\ nerr < MaxErrors
    /\ UnknownType(gen, gen.posts[gen.i])
    /\ sess' = Staged(sess, gen.posts[gen.i].id)
    /\ nerr' = nerr + 1
    /\ pc' = "error"
    /\ hist' = [hist EXCEPT !.cmd.unknown = Some(gen.posts[gen.i].id)]
    /\ UNCHANGED <<remote, db, sf, state, first_id, gen, cur, ncmd, npub, ndel, plugin, sweep, malformed, lib, safe, its>>

\* the creator publishes a post of a type the plugin does not know
PublishUnknown ==
    /\ pc = "idle"
    /\ npub < MaxPublish
    /\ Cardinality(malformed) < MaxUnknown
    /\ Cardinality(remote) + 1 <= MaxId
    /\ remote' = remote \cup NewPosts(1, TRUE)
    /\ malformed' = malformed \cup {p.id : p \in NewPosts(1, TRUE)}
    /\ npub' = npub + 1
    /\ hist' = [hist EXCEPT !.prev = None]
    /\ UNCHANGED <<db, sess, pc, sf, state, first_id, gen, cur, nerr, ncmd, ndel, plugin, sweep, lib, safe, its>>

\* _to_remote_post raises
NextPostError ==
    /\ pc = "item"
    /\ ~UnknownType(gen, gen.posts[gen.i])
    /\ nerr < MaxErrors
    /\ LET post == gen.posts[gen.i]
       IN /\ ~IsBoundary(gen, post)
          /\ post.body
          /\ sess' = ToRemotePostFailed(sess, post)
    /\ nerr' = nerr + 1
    /\ pc' = "error"
    /\ UNCHANGED <<remote, db, sf, state, first_id, gen, cur, ncmd, npub, ndel, hist, plugin, sweep, malformed, lib, safe, its>>

\* the caller pulls again: fetch appends to the feed and commits, then
\* _post_iterator goes on after its yield
Pull ==
    /\ pc = "yielded"
    /\ LET post == Val(cur)
           s == [sess EXCEPT !.feed = @ \cup {post.id}]
       IN AfterPost(post, s, Commit(s))
    /\ UNCHANGED <<remote, nerr, ncmd, npub, ndel, plugin, sweep, malformed, lib, safe, its>>

\* self.session.commit() raises after the append to the feed
PullError ==
    /\ pc = "yielded"
    /\ nerr < MaxErrors
    /\ sess' = [sess EXCEPT !.feed = @ \cup {Val(cur).id}]
    /\ cur' = None
    /\ nerr' = nerr + 1
    /\ pc' = "error"
    /\ UNCHANGED <<remote, db, sf, state, first_id, gen, ncmd, npub, ndel, hist, plugin, sweep, malformed, lib, safe, its>>

\* safe_fetch, answer 'y': flush, lower n by len(posts), call fetch again
RetryCount(n, posts) == IF n # None THEN Some(Val(n) - Cardinality(posts)) ELSE None

Retry ==
    /\ pc = "error"
    /\ sf' = [sf EXCEPT !.n = RetryCount(sf.n, sf.posts)]
    /\ gen' = CallFetch(sf.direction, sf'.n, state)
    /\ sess' = Flush(sess)
    /\ pc' = "page"
    /\ hist' = [hist EXCEPT !.cmd.retried = TRUE,
                            !.cmd.lastCall = None,
                            !.cmd.call = {},
                            !.cmd.unknown = None,
                            !.lastOlder = IF gen'.direction = "newer" THEN None ELSE @,
                            !.lastDone = IF gen'.direction = "newer" THEN None ELSE @]
    /\ UNCHANGED <<remote, db, state, first_id, cur, nerr, ncmd, npub, ndel, plugin, sweep, malformed, lib, safe, its>>

\* safe_fetch, answer 'd': rollback, disable the subscription, commit, return
Disable ==
    /\ pc = "error"
    /\ sess' = [Rollback(sess) EXCEPT !.enabled = FALSE]
    /\ db' = Commit(sess')
    /\ Exit
    /\ hist' = [hist EXCEPT !.cmd = NoCommand, !.ended = "disabled", !.prev = None]
    /\ UNCHANGED <<remote, nerr, ncmd, npub, ndel, plugin, sweep, malformed, lib, safe, its>>

\* safe_fetch, any other answer: the error is raised again; the command rolls
\* back and exits
Propagate ==
    /\ pc = "error"
    /\ sess' = Rollback(sess)
    /\ Exit
    /\ hist' = [hist EXCEPT !.cmd = NoCommand, !.ended = "raised", !.prev = None]
    /\ UNCHANGED <<remote, db, nerr, ncmd, npub, ndel, plugin, sweep, malformed, lib, safe, its>>

\* the caller stops pulling: the generator of fetch is closed at its yield,
\* the append to the feed, the commit and the cursor bookkeeping of the post
\* handed out last do not run; the open transaction is kept or dropped
Cancel ==
    /\ pc = "yielded"
    /\ \E keep \in BOOLEAN : sess' = IF keep THEN sess ELSE Rollback(sess)
    /\ Exit
    /\ hist' = [hist EXCEPT !.cmd = NoCommand, !.ended = "cancelled", !.prev = None,
                            !.cancelled = Some([last |-> Val(cur).id,
                                                want |-> hist.cmd.want,
                                                direction |-> sf.direction,
                                                n |-> hist.cmd.n0,
                                                retried |-> hist.cmd.retried,
                                                remote |-> remote])]
    /\ UNCHANGED <<remote, db, nerr, ncmd, npub, ndel, plugin, sweep, malformed, lib, safe, its>>

\* BookmarkIterator._iterator: one page request
BookmarksPage ==
    /\ pc = "b_page"
    /\ LET params == [offset |-> gen.offset, limit |-> BookmarksPageSize(gen)]
           bookmarks == Bookmarks(params)
       IN IF Len(bookmarks) = 0
          THEN ReturnFromFetch(state, first_id, sess, db, "empty")
          ELSE /\ first_id' = Candidate(gen, state, first_id, bookmarks)
               /\ gen' = [gen EXCEPT !.offset = @ + Len(bookmarks),
                                     !.posts = bookmarks, !.i = 1]
               /\ pc' = "b_item"
               /\ UNCHANGED <<db, sess, state, sf, cur, hist>>
    /\ UNCHANGED <<remote, nerr, ncmd, npub, ndel, plugin, sweep, malformed, lib, safe, its>>

\* BookmarkIterator._iterator: the next bookmark of the page, up to the yield
BookmarkNext ==
    /\ pc = "b_item"
    /\ LET bookmark == gen.posts[gen.i]
       IN IF gen.head_id # None /\ bookmark.id <= Val(gen.head_id)
          THEN ReturnFromFetch(state, first_id, sess, db, "boundary")
          ELSE IF gen.tail_id # None /\ bookmark.id >= Val(gen.tail_id)
          THEN BookmarkAfter(gen, [state EXCEPT !.offset = @ + 1], sess, db)
          ELSE /\ sess' = Staged(sess, bookmark.id)
               /\ cur' = Some(bookmark)
               /\ sf' = [sf EXCEPT !.posts = @ \cup {bookmark.id}]
               /\ pc' = "b_yielded"
               /\ hist' = [hist EXCEPT !.cmd.call = @ \cup {bookmark.id}]
               /\ UNCHANGED <<db, state, first_id, gen>>
    /\ UNCHANGED <<remote, nerr, ncmd, npub, ndel, plugin, sweep, malformed, lib, safe, its>>

\* BookmarkIterator.fetch after its yield: append to the feed, commit; then
\* _iterator after its yield
BookmarkPull ==
    /\ pc = "b_yielded"
    /\ LET bookmark == Val(cur)
           s == [sess EXCEPT !.feed = @ \cup {bookmark.id}]
           st == IF gen.direction = "older"
                 THEN [state EXCEPT !.tail_id = Some(bookmark.id), !.offset = @ + 1]
                 ELSE state
           g == [gen EXCEPT !.total = @ + 1]
       IN IF CountReached(g)
          THEN ReturnFromFetch(st, first_id, s, Commit(s), "count")
          ELSE BookmarkAfter(g, st, s, Commit(s))
    /\ UNCHANGED <<remote, nerr, ncmd, npub, ndel, plugin, sweep, malformed, lib, safe, its>>

\* TweetIterator._page_iterator: one page request
TweetsPage ==
    /\ pc = "t_page"
    /\ LET tweets == Timeline(gen.max_id, gen.since_id, gen.page_size)
       IN IF Len(tweets) = 0
          THEN ReturnFromFetch(state, first_id, sess, db, "empty")
          ELSE /\ gen' = [gen EXCEPT !.posts = tweets, !.i = 1]
               /\ pc' = "t_item"
               /\ UNCHANGED <<db, sess, state, first_id, sf, cur, hist>>
    /\ UNCHANGED <<remote, nerr, ncmd, npub, ndel, plugin, sweep, malformed, lib, safe, its>>

\* TweetIterator.fetch: the next tweet, up to the yield
TweetNext ==
    /\ pc = "t_item"
    /\ LET tweet == gen.posts[gen.i]
           fid == IF gen.first_iteration
                     /\ (state.head_id = None \/ gen.direction = "newer")
                  THEN Some(tweet.id) ELSE first_id
       IN IF tweet.body
          THEN /\ first_id' = fid
               /\ sess' = Staged(sess, tweet.id)
               /\ cur' = Some(tweet)
               /\ sf' = [sf EXCEPT !.posts = @ \cup {tweet.id}]
               /\ pc' = "t_yielded"
               /\ hist' = [hist EXCEPT !.cmd.call = @ \cup {tweet.id}]
               /\ UNCHANGED <<db, state, gen>>
          ELSE TweetAfter(gen, state, fid, sess, db)
    /\ UNCHANGED <<remote, nerr, ncmd, npub, ndel, plugin, sweep, malformed, lib, safe, its>>

\* TweetIterator.fetch after its yield: append to the feed, commit
TweetPull ==
    /\ pc = "t_yielded"
    /\ LET s == [sess EXCEPT !.feed = @ \cup {Val(cur).id}]
       IN TweetAfter(gen, state, first_id, s, Commit(s))
    /\ UNCHANGED <<remote, nerr, ncmd, npub, ndel, plugin, sweep, malformed, lib, safe, its>>

\* safe_fetch returns; the command commits and ends
CommandCommit ==
    /\ pc = "returned"
    /\ db' = Commit(sess)
    /\ sess' = sess
    /\ Exit
    /\ hist' = [hist EXCEPT !.cmd = NoCommand]
    /\ UNCHANGED <<remote, nerr, ncmd, npub, ndel, plugin, sweep, malformed, lib, safe, its>>

\* update-all: a subscription that is not enabled is passed over
SweepSkip ==
    /\ sweep.pc = "loop" /\ sweep.i <= Len(sweep.subs)
    /\ ~sweep.subs[sweep.i].enabled
    /\ sweep' = [sweep EXCEPT !.i = NextSub(@)]
    /\ UNCHANGED fetchVars

\* update-all: get_iterator(sub), safe_fetch calls fetch
SweepStart ==
    /\ sweep.pc = "loop" /\ sweep.i <= Len(sweep.subs)
    /\ sweep.subs[sweep.i].enabled
    /\ sweep' = [sweep EXCEPT !.pc = "fetch",
                              !.subs[sweep.i].was = TRUE,
                              !.subs[sweep.i].fetches = @ + 1]
    /\ UNCHANGED fetchVars

\* fetch yields a post: it was staged, and it is committed with its place in
\* the feed when safe_fetch pulls again
SweepYield ==
    /\ sweep.pc = "fetch"
    /\ sweep.subs[sweep.i].feed + sweep.subs[sweep.i].staged < MaxItems
    /\ sweep' = [sweep EXCEPT !.subs[sweep.i].feed = @ + sweep.subs[sweep.i].staged + 1,
                              !.subs[sweep.i].staged = 0]
    /\ UNCHANGED fetchVars

\* fetch raises, with the work of k posts staged; safe_fetch asks the user
SweepRaise ==
    /\ sweep.pc = "fetch"
    /\ sweep.errors < MaxErrors
    /\ \E k \in 0..1 :
          /\ sweep.subs[sweep.i].feed + sweep.subs[sweep.i].staged + k <= MaxItems
          /\ sweep' = [sweep EXCEPT !.pc = "prompt",
                                    !.errors = @ + 1,
                                    !.prompts = @ + 1,
                                    !.subs[sweep.i].staged = @ + k,
                                    !.subs[sweep.i].asked = TRUE]
    /\ UNCHANGED fetchVars

\* answer 'y': flush, fetch is called again
SweepRetry ==
    /\ sweep.pc = "prompt"
    /\ sweep' = [sweep EXCEPT !.pc = "fetch",
                              !.subs[sweep.i].fetches = @ + 1]
    /\ UNCHANGED fetchVars

\* answer 'd': rollback, enabled = False, commit; safe_fetch returns and the
\* loop commits and goes on
SweepDisable ==
    /\ sweep.pc = "prompt"
    /\ sweep' = [sweep EXCEPT !.pc = "loop",
                              !.i = NextSub(@),
                              !.subs[sweep.i].staged = 0,
                              !.subs[sweep.i].enabled = FALSE]
    /\ UNCHANGED fetchVars

\* any other answer: safe_fetch raises again; the loop catches the error,
\* rolls back and goes on
SweepCatch ==
    /\ sweep.pc = "prompt"
    /\ sweep' = [sweep EXCEPT !.pc = "loop",
                              !.i = NextSub(@),
                              !.subs[sweep.i].staged = 0,
                              !.subs[sweep.i].failed = TRUE]
    /\ UNCHANGED fetchVars

\* fetch returns, safe_fetch returns; the loop commits and goes on
SweepReturn ==
    /\ sweep.pc = "fetch"
    /\ sweep' = [sweep EXCEPT !.pc = "loop",
                              !.i = @ + 1,
                              !.subs[sweep.i].feed = @ + sweep.subs[sweep.i].staged,
                              !.subs[sweep.i].staged = 0]
    /\ UNCHANGED fetchVars

\* the loop is over
SweepEnd ==
    /\ sweep.pc = "loop" /\ sweep.i > Len(sweep.subs)
    /\ sweep' = [sweep EXCEPT !.pc = "done"]
    /\ UNCHANGED fetchVars

\* CreatorIterator.fetch of a subscription: _to_remote_post(post, preview=False)
FetchPost == Call(FALSE, "yielded")

\* CreatorIterator.fetch with no subscription: _to_remote_post(post, preview=True)
PreviewPost == Call(TRUE, "yielded")

\* the download command: plugin.download(id, preview=False)
DownloadPost == Call(FALSE, "downloaded")

\* the caller of fetch pulls again: fetch commits
FetchCommit ==
    /\ lib.pc = "yielded"
    /\ lib' = [lib EXCEPT !.db = lib.sess, !.pc = "idle"]
    /\ UNCHANGED commandVars

\* the download command commits and ends
DownloadCommit ==
    /\ lib.pc = "downloaded"
    /\ lib' = [lib EXCEPT !.db = lib.sess, !.pc = "idle"]
    /\ UNCHANGED commandVars

\* the commit of fetch or of the download command raises
CommitError ==
    /\ lib.pc \in {"yielded", "downloaded"}
    /\ lib' = [lib EXCEPT !.pc = "raised"]
    /\ UNCHANGED commandVars

\* safe_fetch, answer 'y': flush, fetch is called again and comes to the post
RetryPost ==
    /\ lib.pc = "raised"
    /\ lib' = [lib EXCEPT !.pc = "idle"]
    /\ UNCHANGED commandVars

\* safe_fetch, answers 'd' and 'n', and the except of the command: rollback
RollbackPost ==
    /\ lib.pc = "raised"
    /\ lib' = [lib EXCEPT !.sess = lib.db, !.pc = "idle"]
    /\ UNCHANGED commandVars

Next ==
    \/ Publish
    \/ Update
    \/ Fetch
    \/ RFetch
    \/ GetPage
    \/ GetPageError
    \/ NextPost
    \/ NextPostError
    \/ Pull
    \/ PullError
    \/ Retry
    \/ Disable
    \/ Propagate

Spec == Init /\ [][Next]_vars

\* the commands run with the plugin named on the command line
InitAll ==
    /\ \E p \in Plugins : InitCommands(p)
    /\ sweep = NoSweep /\ malformed = {} /\ safe = NoSafe /\ its = NoIterators /\ lib = NoLibrary

NextAll ==
    \/ Next
    \/ BookmarksPage
    \/ BookmarkNext
    \/ BookmarkPull
    \/ TweetsPage
    \/ TweetNext
    \/ TweetPull
    \/ CommandCommit

SpecAll == InitAll /\ [][NextAll]_vars

\* the update-all command over the subscriptions of the plugin
InitSweep ==
    /\ InitCommands("fanbox")
    /\ malformed = {} /\ safe = NoSafe /\ its = NoIterators /\ lib = NoLibrary
    /\ \E k \in 1..MaxSubs :
          \E en \in [1..k -> BOOLEAN] :
             sweep = [NoSweep EXCEPT !.pc = "loop", !.i = 1,
                                     !.subs = [j \in 1..k |-> Sub(en[j])]]

NextSweep ==
    \/ SweepSkip
    \/ SweepStart
    \/ SweepYield
    \/ SweepRaise
    \/ SweepRetry
    \/ SweepDisable
    \/ SweepCatch
    \/ SweepReturn
    \/ SweepEnd

SpecSweep == InitSweep /\ [][NextSweep]_vars

\* the commands that materialize one remote post
InitLibrary ==
    /\ InitCommands("fanbox")
    /\ sweep = NoSweep /\ malformed = {} /\ safe = NoSafe /\ its = NoIterators
    /\ \E post \in Posts : lib = [NoLibrary EXCEPT !.post = post, !.pc = "idle"]

NextLibrary ==
    \/ FetchPost
    \/ PreviewPost
    \/ DownloadPost
    \/ FetchCommit
    \/ DownloadCommit
    \/ CommitError
    \/ RetryPost
    \/ RollbackPost

SpecLibrary == InitLibrary /\ [][NextLibrary]_vars

\* the same program against a feed whose newest post can be deleted
NextDel == Next \/ Delete
SpecDel == Init /\ [][NextDel]_vars

\* the same program against a remote that makes no error: the command runs
\* on until it ends (safe_fetch pulls from fetch until it is exhausted)
NextQuiet ==
    \/ Publish
    \/ Update
    \/ Fetch
    \/ RFetch
    \/ GetPage
    \/ NextPost
    \/ Pull

\* the same program against a feed with a post of unknown type, and a remote
\* that makes no other error
NextUnknown ==
    \/ NextQuiet
    \/ PublishUnknown
    \/ NextPostUnknown
    \/ Retry
    \/ Disable
    \/ Propagate

SpecUnknown == Init /\ [][NextUnknown]_vars

SpecQuiet ==
    /\ Init /\ [][NextQuiet]_vars
    /\ WF_vars(GetPage) /\ WF_vars(NextPost) /\ WF_vars(Pull)

\* the same program with a caller that may stop pulling from fetch, and a
\* commit that may fail
NextCancel == NextQuiet \/ Cancel \/ PullError \/ Retry \/ Propagate
SpecCancel == Init /\ [][NextCancel]_vars

(* ---- the Patreon CreatorIterator ----------------------------------------- *)
\* the post list of the campaign, newest first: the page that starts at the
\* cursor (None: the first page); next is the cursor of the page after it
PostList(cursor) ==
    LET all == SortDesc(remote)
        from == IF cursor = None THEN 1 ELSE Val(cursor)
        to == Min(from + MaxPage - 1, Len(all))
    IN [data |-> IF from > Len(all) THEN <<>> ELSE SubSeq(all, from, to),
        next |-> IF to < Len(all) THEN Some(to + 1) ELSE None]

\* page.meta.pagination.get('cursors') of a page: None when the key is
\* missing, else the value of cursors.next (None on the last page). The last
\* page comes without the key or with a next of null
Cursors(page, shape) ==
    IF page.next # None THEN Some(page.next)
    ELSE IF shape = "absent" THEN None ELSE Some(None)

\* CreatorIterator.__init__ and reconfigure: the direction is newer and the
\* count unlimited, whatever the caller asks for
PatreonIterator(st) ==
    [direction |-> "newer",
     n |-> None,
     head_timestamp |-> st.head_timestamp,
     cursor |-> None,
     cursors |-> None,
     posts |-> <<>>,
     i |-> 0]

\* a CLI command on a Patreon subscription
PatreonCommand ==
    /\ plugin = "patreon"
    /\ pc = "idle"
    /\ ncmd < MaxCmds
    /\ ncmd' = ncmd + 1
    /\ \E direction \in {"newer", "older"}, n \in {None} \cup {Some(k) : k \in 1..MaxN} :
          sf' = [direction |-> direction, n |-> n, posts |-> {}]
    /\ state' = db.state
    /\ first_id' = None
    /\ gen' = PatreonIterator(db.state)
    /\ pc' = "pt_page"
    /\ hist' = [hist EXCEPT !.cmd = [NoCommand EXCEPT !.head0 = db.state.head_timestamp],
                            !.ended = "none"]
    /\ UNCHANGED <<remote, db, sess, cur, nerr, npub, ndel, plugin, sweep, malformed, lib, safe, its>>

\* the end of _generator: the first timestamp becomes head_timestamp, the
\* state is written onto the subscription and committed
PatreonReturn(s, why) ==
    /\ state' = IF first_id # None THEN [state EXCEPT !.head_timestamp = first_id]
                ELSE state
    /\ first_id' = None
    /\ sess' = StoreState(s, state')
    /\ db' = Commit(sess')
    /\ cur' = None
    /\ pc' = "returned"
    /\ hist' = [hist EXCEPT !.ended = why]
    /\ UNCHANGED <<sf, gen>>

\* _post_iterator after the posts of a page: return when the page has no
\* cursors, else ask for the page at cursors.next
PatreonAfterPage(g, s, d) ==
    IF g.cursors = None
    THEN PatreonReturn(s, "nonext")
    ELSE /\ gen' = [g EXCEPT !.cursor = Val(g.cursors)]
         /\ pc' = "pt_page"
         /\ sess' = s /\ db' = d
         /\ cur' = None
         /\ UNCHANGED <<state, first_id, sf, hist>>

\* _post_iterator: on to the next post of the page
PatreonAfterPost(g, s, d) ==
    IF g.i < Len(g.posts)
    THEN /\ gen' = [g EXCEPT !.i = @ + 1]
         /\ pc' = "pt_item"
         /\ sess' = s /\ db' = d
         /\ cur' = None
         /\ UNCHANGED <<state, first_id, sf, hist>>
    ELSE PatreonAfterPage(g, s, d)

\* _post_iterator: one page request
PatreonPage ==
    /\ pc = "pt_page"
    /\ \E shape \in {"absent", "null"} :
          LET page == PostList(gen.cursor)
              g == [gen EXCEPT !.posts = page.data, !.i = 1,
                               !.cursors = Cursors(page, shape)]
          IN IF Len(page.data) > 0
             THEN /\ first_id' = IF gen.cursor = None
                                 THEN Some(page.data[1].publishedDatetime)
                                 ELSE first_id
                  /\ gen' = g
                  /\ pc' = "pt_item"
                  /\ UNCHANGED <<db, sess, state, sf, cur, hist>>
             ELSE PatreonAfterPage(g, sess, db)
    /\ UNCHANGED <<remote, nerr, ncmd, npub, ndel, plugin, sweep, malformed, lib, safe, its>>

\* _post_iterator: the next post of the page, up to the yield of _generator
PatreonNext ==
    /\ pc = "pt_item"
    /\ LET post == gen.posts[gen.i]
       IN IF gen.head_timestamp # None
             /\ post.publishedDatetime < Val(gen.head_timestamp)
          THEN PatreonReturn(sess, "boundary")
          ELSE IF post.body
          THEN /\ sess' = Staged(sess, post.id)
               /\ cur' = Some(post)
               /\ sf' = [sf EXCEPT !.posts = @ \cup {post.id}]
               /\ pc' = "pt_yielded"
               /\ hist' = [hist EXCEPT !.cmd.lastCall = Some(post.id),
                                       !.cmd.call = @ \cup {post.id}]
               /\ UNCHANGED <<db, state, first_id, gen>>
          ELSE PatreonAfterPost(gen, sess, db)
    /\ UNCHANGED <<remote, nerr, ncmd, npub, ndel, plugin, sweep, malformed, lib, safe, its>>

\* _generator after its yield: append to the feed, commit; then
\* _post_iterator goes on
PatreonPull ==
    /\ pc = "pt_yielded"
    /\ LET s == [sess EXCEPT !.feed = @ \cup {Val(cur).id}]
       IN PatreonAfterPost(gen, s, Commit(s))
    /\ UNCHANGED <<remote, nerr, ncmd, npub, ndel, plugin, sweep, malformed, lib, safe, its>>

InitPatreon ==
    /\ InitCommands("patreon")
    /\ sweep = NoSweep /\ malformed = {} /\ safe = NoSafe /\ its = NoIterators /\ lib = NoLibrary

NextPatreon ==
    \/ Publish
    \/ PatreonCommand
    \/ PatreonPage
    \/ PatreonNext
    \/ PatreonPull
    \/ CommandCommit

\* safe_fetch pulls from fetch until it is exhausted
SpecPatreon ==
    /\ InitPatreon /\ [][NextPatreon]_vars
    /\ WF_vars(PatreonPage) /\ WF_vars(PatreonNext) /\ WF_vars(PatreonPull)
    /\ WF_vars(CommandCommit)

(* ---- the Nijie UserIterator ---------------------------------------------- *)
\* the ids on page page_id (1 indexed) of the user's illustrations, newest
\* first
IllustPage(page_id) ==
    LET all == SortDesc(remote)
        from == (page_id - 1) * MaxPage + 1
        to == Min(page_id * MaxPage, Len(all))
    IN IF from > Len(all) THEN <<>> ELSE SubSeq(all, from, to)

\* UserIterator.reconfigure and the first lines of _iterator
UserIterator(direction, n, st) ==
    LET d == FetchDirection(direction, st)
    IN [direction |-> d,
        n |-> FetchCount(direction, n, st),
        page_id |-> IF d = "older" THEN st.tail_page ELSE 1,
        first_iteration |-> TRUE,
        posts |-> <<>>,
        i |-> 0]

\* (changed: an older walk passes over no post)
AlreadySeenNever(g, st, post_id) == FALSE

\* _iterator: an older walk passes over the posts that are not older than
\* tail_id
AlreadySeen(g, st, post_id) ==
    g.direction = "older" /\ st.tail_id # None /\ post_id >= Val(st.tail_id)

\* a CLI command on a Nijie subscription
NijieCommand ==
    /\ plugin = "nijie"
    /\ pc = "idle"
    /\ ncmd < MaxCmds
    /\ ncmd' = ncmd + 1
    /\ \E direction \in {"newer", "older"}, n \in {None} \cup {Some(k) : k \in 1..MaxN} :
          /\ direction = "older" => n # None
          /\ sf' = [direction |-> direction, n |-> n, posts |-> {}]
          /\ gen' = UserIterator(direction, n, db.state)
    /\ state' = db.state
    /\ first_id' = None
    /\ pc' = "n_page"
    /\ hist' = [hist EXCEPT !.cmd = [NoCommand EXCEPT !.head0 = db.state.head_id],
                            !.ended = "none"]
    /\ UNCHANGED <<remote, db, sess, cur, nerr, npub, ndel, plugin, sweep, malformed, lib, safe, its>>

\* the end of _generator: the candidate becomes head_id, the state is written
\* onto the subscription and committed
NijieReturn(g, st, s, why) ==
    /\ gen' = g
    /\ state' = HeadAtEnd(st, first_id)
    /\ first_id' = None
    /\ sess' = StoreState(s, state')
    /\ db' = Commit(sess')
    /\ cur' = None
    /\ pc' = "returned"
    /\ hist' = [hist EXCEPT !.ended = why]
    /\ UNCHANGED sf

\* _iterator: on to the next post of the page, or to the next page
NijieAfter(g, st, s, d) ==
    /\ IF g.i < Len(g.posts)
       THEN gen' = [g EXCEPT !.i = @ + 1] /\ pc' = "n_item"
       ELSE gen' = [g EXCEPT !.page_id = @ + 1] /\ pc' = "n_page"
    /\ state' = st /\ sess' = s /\ db' = d
    /\ cur' = None
    /\ UNCHANGED <<first_id, sf, hist>>

\* _iterator: one page request
NijiePage ==
    /\ pc = "n_page"
    /\ LET post_ids == IllustPage(gen.page_id)
       IN IF Len(post_ids) = 0
          THEN NijieReturn(gen, state, sess, "empty")
          ELSE /\ state' = IF gen.direction = "older"
                           THEN [state EXCEPT !.tail_page = gen.page_id] ELSE state
               /\ gen' = [gen EXCEPT !.posts = post_ids, !.i = 1]
               /\ pc' = "n_item"
               /\ UNCHANGED <<db, sess, first_id, sf, cur, hist>>
    /\ UNCHANGED <<remote, nerr, ncmd, npub, ndel, plugin, sweep, malformed, lib, safe, its>>

\* _iterator: the next post of the page, up to the yield
NijieNext ==
    /\ pc = "n_item"
    /\ LET post == gen.posts[gen.i]
       IN IF gen.direction = "newer" /\ state.head_id # None
             /\ post.id <= Val(state.head_id)
          THEN NijieReturn(gen, state, sess, "boundary")
          ELSE IF AlreadySeen(gen, state, post.id)
          THEN NijieAfter(gen, state, sess, db)
          ELSE /\ first_id' = IF gen.first_iteration
                                   /\ (state.head_id = None \/ gen.direction = "newer")
                              THEN Some(post.id) ELSE first_id
               /\ sess' = Staged(sess, post.id)
               /\ cur' = Some(post)
               /\ sf' = [sf EXCEPT !.posts = @ \cup {post.id}]
               /\ pc' = "n_yielded"
               /\ hist' = [hist EXCEPT !.cmd.lastCall = Some(post.id),
                                       !.cmd.call = @ \cup {post.id}]
               /\ UNCHANGED <<db, state, gen>>
    /\ UNCHANGED <<remote, nerr, ncmd, npub, ndel, plugin, sweep, malformed, lib, safe, its>>

\* _generator after its yield: append to the feed, commit; then _iterator
\* after its yield
NijiePull ==
    /\ pc = "n_yielded"
    /\ LET post == Val(cur)
           s == [sess EXCEPT !.feed = @ \cup {post.id}]
           st == IF gen.direction = "older"
                 THEN [state EXCEPT !.tail_id = Some(post.id)] ELSE state
           g == IF gen.n # None THEN [gen EXCEPT !.n = Some(Val(@) - 1)] ELSE gen
       IN IF g.n # None /\ Val(g.n) <= 0
          THEN NijieReturn(g, st, s, "count")
          ELSE NijieAfter([g EXCEPT !.first_iteration = FALSE], st, s, Commit(s))
    /\ UNCHANGED <<remote, nerr, ncmd, npub, ndel, plugin, sweep, malformed, lib, safe, its>>

\* a CLI command on a Pixiv bookmarks subscription
PixivCommand ==
    /\ plugin = "pixiv"
    /\ \E direction \in {"newer", "older"}, n \in {None} \cup {Some(k) : k \in 1..MaxN} :
          /\ direction = "older" => n # None
          /\ Command(direction, n)

\* the two iterators that pass over the posts they have seen
InitOlder ==
    /\ \E p \in {"pixiv", "nijie"} : InitCommands(p)
    /\ sweep = NoSweep /\ malformed = {} /\ safe = NoSafe /\ its = NoIterators /\ lib = NoLibrary

NextOlder ==
    \/ Publish
    \/ PixivCommand
    \/ BookmarksPage
    \/ BookmarkNext
    \/ BookmarkPull
    \/ NijieCommand
    \/ NijiePage
    \/ NijieNext
    \/ NijiePull
    \/ CommandCommit

SpecOlder == InitOlder /\ [][NextOlder]_vars

(* ---- the TweetIterator of src/twitter/twitter.py ------------------------- *)
\* fetch, lines 175-180: line 178 compares direction with older and drops
\* the result, so the direction stays the one the caller asked for
LegacyDirection(direction, st) == direction

\* fetch, _feed_iterator and the first lines of _page_iterator
LegacyIterator(direction, n, st) ==
    FeedIterator(LegacyDirection(direction, st), FetchCount(direction, n, st), st)

\* a CLI command on a subscription of the plugin
LegacyCommand ==
    /\ plugin = "twitter_legacy"
    /\ pc = "idle"
    /\ ncmd < MaxCmds
    /\ ncmd' = ncmd + 1
    /\ \E direction \in {"newer", "older"}, n \in {None} \cup {Some(k) : k \in 1..MaxN} :
          /\ direction = "older" => n # None
          /\ sf' = [direction |-> direction, n |-> n, posts |-> {}]
          /\ gen' = LegacyIterator(direction, n, db.state)
    /\ state' = db.state
    /\ first_id' = None
    /\ pc' = "l_page"
    /\ hist' = [hist EXCEPT !.cmd = [NoCommand EXCEPT !.head0 = db.state.head_id],
                            !.ended = "none"]
    /\ UNCHANGED <<remote, db, sess, cur, nerr, npub, ndel, plugin, sweep, malformed, lib, safe, its>>

\* the end of fetch: _save_state writes head_id and tail_id onto the
\* subscription; fetch does not commit
LegacyReturn(g, st, s, d, call, why) ==
    /\ gen' = g
    /\ state' = st
    /\ sess' = StoreState(s, st)
    /\ db' = d
    /\ pc' = "returned"
    /\ hist' = [hist EXCEPT !.ended = why, !.cmd.call = call]
    /\ UNCHANGED <<first_id, cur>>

\* _page_iterator: one page request
LegacyPage ==
    /\ pc = "l_page"
    /\ LET tweets == Timeline(gen.max_id, gen.since_id, gen.page_size)
       IN IF Len(tweets) = 0
          THEN LegacyReturn(gen, state, sess, db, hist.cmd.call, "empty") /\ sf' = sf
          ELSE /\ gen' = [gen EXCEPT !.posts = tweets, !.i = 1]
               /\ pc' = "l_item"
               /\ UNCHANGED <<db, sess, state, first_id, sf, cur, hist>>
    /\ UNCHANGED <<remote, nerr, ncmd, npub, ndel, plugin, sweep, malformed, lib, safe, its>>

\* fetch: the body of the loop for one tweet, then _page_iterator after its
\* yield
LegacyTweet ==
    /\ pc = "l_item"
    /\ LET tweet == gen.posts[gen.i]
           head == IF gen.first_iteration
                      /\ (state.head_id = None \/ gen.direction = "newer")
                   THEN Some(tweet.id) ELSE state.head_id
           tail == IF gen.direction = "older" THEN Some(tweet.id) ELSE state.tail_id
           st == [state EXCEPT !.head_id = head, !.tail_id = tail]
           s == [Staged(sess, tweet.id) EXCEPT !.feed = @ \cup {tweet.id}]
           g == [gen EXCEPT !.first_iteration = FALSE,
                            !.max_id = Some(tweet.id - 1),
                            !.total = @ + 1]
       IN /\ sf' = [sf EXCEPT !.posts = @ \cup {tweet.id}]
          /\ IF g.limit # None /\ g.total >= Val(g.limit)
             THEN LegacyReturn(g, st, s, Commit(s), hist.cmd.call \cup {tweet.id}, "count")
             ELSE /\ IF g.i < Len(g.posts)
                     THEN gen' = [g EXCEPT !.i = @ + 1] /\ pc' = "l_item"
                     ELSE gen' = g /\ pc' = "l_page"
                  /\ state' = st /\ sess' = s /\ db' = Commit(s)
                  /\ hist' = [hist EXCEPT !.cmd.call = @ \cup {tweet.id}]
                  /\ UNCHANGED <<first_id, cur>>
    /\ UNCHANGED <<remote, nerr, ncmd, npub, ndel, plugin, sweep, malformed, lib, safe, its>>

InitLegacy ==
    /\ InitCommands("twitter_legacy")
    /\ sweep = NoSweep /\ malformed = {} /\ safe = NoSafe /\ its = NoIterators /\ lib = NoLibrary

NextLegacy ==
    \/ Publish
    \/ LegacyCommand
    \/ LegacyPage
    \/ LegacyTweet
    \/ CommandCommit

SpecLegacy == InitLegacy /\ [][NextLegacy]_vars

(* ---- the Fantia CreatorIterator ------------------------------------------ *)
\* post.links.next (newer) and post.links.previous (older) of the post with
\* the given id: the id of the neighbour, None at the end of the feed
Link(direction, post_id) ==
    LET side == IF direction = "newer" THEN {id \in RemoteIds : id > post_id}
                ELSE {id \in RemoteIds : id < post_id}
    IN IF side = {} THEN None
       ELSE IF direction = "newer" THEN Some(SetMin(side)) ELSE Some(SetMax(side))

\* fetch, before its loop: with no tail_id the direction is older
FantiaIterator(direction, n, st) ==
    [direction |-> IF st.tail_id = None THEN "older" ELSE direction,
     n |-> n,
     post_id |-> None,
     left |-> None]

\* a CLI command on a Fantia subscription
FantiaCommand ==
    /\ plugin = "fantia"
    /\ pc = "idle"
    /\ ncmd < MaxCmds
    /\ ncmd' = ncmd + 1
    /\ \E direction \in {"newer", "older"}, n \in {None} \cup {Some(k) : k \in 1..MaxN} :
          /\ direction = "older" => n # None
          /\ sf' = [direction |-> direction, n |-> n, posts |-> {}]
          /\ gen' = FantiaIterator(direction, n, db.state)
    /\ state' = db.state
    /\ first_id' = None
    /\ pc' = "f_start"
    /\ hist' = [hist EXCEPT !.cmd = [NoCommand EXCEPT !.head0 = db.state.head_id],
                            !.ended = "none"]
    /\ UNCHANGED <<remote, db, sess, cur, nerr, npub, ndel, plugin, sweep, malformed, lib, safe, its>>

\* the end of fetch: the state is written onto the subscription; fetch does
\* not commit
FantiaReturn(st, s, d, why) ==
    /\ state' = st
    /\ sess' = StoreState(s, st)
    /\ db' = d
    /\ cur' = None
    /\ pc' = "returned"
    /\ hist' = [hist EXCEPT !.ended = why]
    /\ UNCHANGED <<first_id, sf, gen>>

\* _post_iterator, up to its loop: the walk starts at the newest post when
\* the cursor is None, and writes it to head_id and tail_id; else it starts at
\* the neighbour of the post the cursor names
FantiaStart ==
    /\ pc = "f_start"
    /\ LET cursor == IF gen.direction = "newer" THEN state.head_id ELSE state.tail_id
           first == IF cursor = None
                    THEN (IF remote = {} THEN None ELSE Some(SetMax(RemoteIds)))
                    ELSE Link(gen.direction, Val(cursor))
       IN IF first = None
          THEN FantiaReturn(state, sess, db, "empty")
          ELSE /\ state' = IF cursor = None
                           THEN [state EXCEPT !.head_id = first, !.tail_id = first]
                           ELSE state
               /\ gen' = [gen EXCEPT !.post_id = first, !.left = gen.n]
               /\ pc' = "f_item"
               /\ UNCHANGED <<db, sess, first_id, sf, cur, hist>>
    /\ UNCHANGED <<remote, nerr, ncmd, npub, ndel, plugin, sweep, malformed, lib, safe, its>>

\* _post_iterator: one turn of the loop up to the yield, then fetch up to its
\* yield
FantiaNext ==
    /\ pc = "f_item"
    /\ IF gen.left # None /\ Val(gen.left) <= 0
       THEN FantiaReturn(state, sess, db, "count")
       ELSE LET post_id == Val(gen.post_id)
            IN /\ sess' = Staged(sess, post_id)
               /\ cur' = Some(CHOOSE p \in remote : p.id = post_id)
               /\ sf' = [sf EXCEPT !.posts = @ \cup {post_id}]
               /\ gen' = [gen EXCEPT !.left = IF @ = None THEN @ ELSE Some(Val(@) - 1)]
               /\ pc' = "f_yielded"
               /\ hist' = [hist EXCEPT !.cmd.lastCall = Some(post_id),
                                       !.cmd.call = @ \cup {post_id}]
               /\ UNCHANGED <<db, state, first_id>>
    /\ UNCHANGED <<remote, nerr, ncmd, npub, ndel, plugin, sweep, malformed, lib, safe, its>>

\* the request of the post or _to_remote_posts raises
FantiaNextError ==
    /\ pc = "f_item"
    /\ ~(gen.left # None /\ Val(gen.left) <= 0)
    /\ nerr < MaxErrors
    /\ nerr' = nerr + 1
    /\ pc' = "error"
    /\ UNCHANGED <<remote, db, sess, sf, state, first_id, gen, cur, ncmd, npub, ndel, hist, plugin, sweep, malformed, lib, safe, its>>

\* fetch after its yield: append to the feed, commit; then _post_iterator
\* after its yield: the cursor moves to the post, the walk to its neighbour
FantiaPull ==
    /\ pc = "f_yielded"
    /\ LET post_id == Val(gen.post_id)
           s == [sess EXCEPT !.feed = @ \cup {post_id}]
           st == IF gen.direction = "newer"
                 THEN [state EXCEPT !.head_id = Some(post_id)]
                 ELSE [state EXCEPT !.tail_id = Some(post_id)]
           next_post == Link(gen.direction, post_id)
       IN IF next_post = None
          THEN FantiaReturn(st, s, Commit(s), "nonext")
          ELSE /\ gen' = [gen EXCEPT !.post_id = next_post]
               /\ state' = st /\ sess' = s /\ db' = Commit(s)
               /\ cur' = None
               /\ pc' = "f_item"
               /\ UNCHANGED <<first_id, sf, hist>>
    /\ UNCHANGED <<remote, nerr, ncmd, npub, ndel, plugin, sweep, malformed, lib, safe, its>>

\* safe_fetch, answer 'y': flush, lower n by len(posts), call fetch again on
\* the same iterator
FantiaRetry ==
    /\ plugin = "fantia"
    /\ pc = "error"
    /\ sf' = [sf EXCEPT !.n = RetryCount(sf.n, sf.posts)]
    /\ gen' = FantiaIterator(sf.direction, sf'.n, state)
    /\ sess' = Flush(sess)
    /\ pc' = "f_start"
    /\ hist' = [hist EXCEPT !.cmd.retried = TRUE, !.cmd.lastCall = None, !.cmd.call = {}]
    /\ UNCHANGED <<remote, db, state, first_id, cur, nerr, ncmd, npub, ndel, plugin, sweep, malformed, lib, safe, its>>

InitFantia ==
    /\ InitCommands("fantia")
    /\ sweep = NoSweep /\ malformed = {} /\ safe = NoSafe /\ its = NoIterators /\ lib = NoLibrary

NextFantia ==
    \/ Publish
    \/ FantiaCommand
    \/ FantiaStart
    \/ FantiaNext
    \/ FantiaNextError
    \/ FantiaPull
    \/ FantiaRetry
    \/ Propagate
    \/ CommandCommit

SpecFantia == InitFantia /\ [][NextFantia]_vars

(* ---- safe_fetch with any iterator ----------------------------------------- *)
\* safe_fetch, the top of its while loop: it.fetch(direction, n) is called
SafeCall ==
    /\ safe.pc = "loop"
    /\ safe.calls < MaxFetch
    /\ safe' = [safe EXCEPT !.pc = "fetching", !.calls = @ + 1]
    /\ UNCHANGED iteratorVars

\* fetch hands a post to safe_fetch: posts[remote_post.id] = remote_post
SafeYield ==
    /\ safe.pc = "fetching"
    /\ safe.posts < MaxItems
    /\ safe' = [safe EXCEPT !.posts = @ + 1]
    /\ UNCHANGED iteratorVars

\* fetch is exhausted: safe_fetch returns posts
SafeReturn ==
    /\ safe.pc = "fetching"
    /\ safe' = [safe EXCEPT !.pc = "returned"]
    /\ UNCHANGED iteratorVars

\* KeyboardInterrupt in fetch: raised again
SafeInterrupt ==
    /\ safe.pc = "fetching"
    /\ safe' = [safe EXCEPT !.pc = "interrupted"]
    /\ UNCHANGED iteratorVars

\* any other exception in fetch: with a subscription the user is asked; with
\* none the except block ends and the while loop goes round
SafeRaise ==
    /\ safe.pc = "fetching"
    /\ safe' = IF safe.subscription
               THEN [safe EXCEPT !.pc = "prompt", !.prompts = @ + 1]
               ELSE [safe EXCEPT !.pc = "loop"]
    /\ UNCHANGED iteratorVars

\* the answer to 'do you want to retry? (Ynd)': y or nothing retries, d
\* disables the subscription and returns, anything else raises again
SafeAnswer ==
    /\ safe.pc = "prompt"
    /\ \E v \in {"", "y", "d", "n"} :
          LET answer == IF v = "" THEN "y" ELSE v
          IN safe' = IF answer = "y"
                     THEN [safe EXCEPT !.pc = "loop", !.answer = answer,
                                       !.n = IF @ # None THEN Some(Val(@) - safe.posts)
                                             ELSE @]
                     ELSE IF answer = "d"
                     THEN [safe EXCEPT !.pc = "returned", !.answer = answer,
                                       !.enabled = FALSE]
                     ELSE [safe EXCEPT !.pc = "raised", !.answer = answer]
    /\ UNCHANGED iteratorVars

\* safe_fetch(plugin, it, direction, n) with an iterator that has a
\* subscription or none
InitSafe ==
    /\ InitCommands("fanbox")
    /\ sweep = NoSweep /\ malformed = {} /\ lib = NoLibrary /\ its = NoIterators
    /\ \E subscription \in BOOLEAN, n \in {None} \cup {Some(k) : k \in 1..MaxN} :
          safe = [NoSafe EXCEPT !.pc = "loop", !.subscription = subscription, !.n = n]

NextSafe ==
    \/ SafeCall
    \/ SafeYield
    \/ SafeReturn
    \/ SafeInterrupt
    \/ SafeRaise
    \/ SafeAnswer

SpecSafe == InitSafe /\ [][NextSafe]_vars

(* ---- two iterators of one plugin ------------------------------------------ *)
\* the k-th post of subscription i
Item(i, k) == [sub |-> i, k |-> k]

\* the post iterator i handed out last
Current(i) == Item(i, its[i].k)

\* the variables the two iterators leave alone
sessionVars == <<remote, pc, sf, state, first_id, gen, cur, nerr, ncmd, npub, ndel, hist,
                 plugin, sweep, malformed, lib, safe>>

\* fetch of iterator i up to its yield: _to_remote_post adds the post to the
\* session of the plugin
PairNext(i) ==
    /\ its[i].pc = "ready"
    /\ its[i].k < MaxItems
    /\ its' = [its EXCEPT ![i].pc = "yielded", ![i].k = @ + 1]
    /\ sess' = Staged(sess, Item(i, its[i].k + 1))
    /\ UNCHANGED db
    /\ UNCHANGED sessionVars

\* fetch of iterator i after its yield: append to the feed, core.commit()
PairPull(i) ==
    /\ its[i].pc = "yielded"
    /\ its' = [its EXCEPT ![i].pc = "ready"]
    /\ sess' = [sess EXCEPT !.feed = @ \cup {Current(i)}]
    /\ db' = Commit(sess')
    /\ UNCHANGED sessionVars

\* fetch of iterator i raises after its yield
PairRaise(i) ==
    /\ its[i].pc = "yielded"
    /\ its' = [its EXCEPT ![i].pc = "raised"]
    /\ UNCHANGED <<db, sess>>
    /\ UNCHANGED sessionVars

\* the error of iterator i reaches the command: core.rollback()
PairRollback(i) ==
    /\ its[i].pc = "raised"
    /\ its' = [its EXCEPT ![i].pc = "done"]
    /\ sess' = Rollback(sess)
    /\ UNCHANGED db
    /\ UNCHANGED sessionVars

\* fetch of iterator i returns and the command commits
PairReturn(i) ==
    /\ its[i].pc = "ready"
    /\ its' = [its EXCEPT ![i].pc = "done"]
    /\ db' = Commit(sess)
    /\ UNCHANGED sess
    /\ UNCHANGED sessionVars

Next1 == PairNext(1) \/ PairPull(1) \/ PairRaise(1) \/ PairRollback(1) \/ PairReturn(1)
Next2 == PairNext(2) \/ PairPull(2) \/ PairRaise(2) \/ PairRollback(2) \/ PairReturn(2)

\* get_iterator for two subscriptions of one plugin: both iterators hold the
\* plugin, and with it the one core and session
InitPair ==
    /\ InitCommands("pixiv")
    /\ sweep = NoSweep /\ malformed = {} /\ lib = NoLibrary /\ safe = NoSafe
    /\ its = [i \in 1..2 |-> [pc |-> "ready", k |-> 0]]

NextPair == Next1 \/ Next2

SpecPair == InitPair /\ [][NextPair]_vars

(* ---- properties ---------------------------------------------------------- *)
\* the step in which fetch returns without error
Returned ==
    /\ pc # "idle" /\ pc' = "idle"
    /\ hist'.ended \in {"count", "nonext", "empty", "boundary"}

Accessible == {p.id : p \in {q \in remote : q.body}}

\* C1: every accessible remote post whose id lies between the stored tail_id
\* and the stored head_id has a record in the subscription's feed
C1_NoGap ==
    \A p \in remote :
        (/\ p.body
         /\ db.state.tail_id # None /\ db.state.head_id # None
         /\ Val(db.state.tail_id) <= p.id /\ p.id <= Val(db.state.head_id))
        => p.id \in db.feed

\* C2: while a command runs (its fetch under way, interrupted or retried)
\* head_id has the value stored when the command started, in the iterator's
\* state, in the session and in the committed subscription; the first post of
\* the first page is held in first_id only
C2_HeadAllOrNothing ==
    pc # "idle" =>
        /\ state.head_id = hist.cmd.head0
        /\ sess.state.head_id = hist.cmd.head0
        /\ db.state.head_id = hist.cmd.head0
        /\ (pc \in {"item", "yielded"} /\ gen.first_iteration
              /\ (state.head_id = None \/ gen.direction = "newer"))
           => first_id = Some(gen.posts[1].id)

C2_Witness ==
    /\ pc = "error" /\ gen.total > 0
    /\ first_id # None /\ first_id # hist.cmd.head0

\* C3: head_id never decreases, whatever the remote feed returns
C3_HeadMonotone ==
    [][db.state.head_id # None =>
          /\ db'.state.head_id # None
          /\ Val(db'.state.head_id) >= Val(db.state.head_id)]_vars

\* C4: the stored tail_id and the tail_id of a running iterator never go
\* back to None and never increase, so every change is to a smaller id
C4_TailMonotone ==
    [][/\ db.state.tail_id # None =>
             /\ db'.state.tail_id # None
             /\ Val(db'.state.tail_id) <= Val(db.state.tail_id)
       /\ (pc # "idle" /\ pc' # "idle" /\ state.tail_id # None) =>
             /\ state'.tail_id # None
             /\ Val(state'.tail_id) <= Val(state.tail_id)
       /\ (pc # "idle" /\ db.state.tail_id # None) =>
             /\ state.tail_id # None
             /\ Val(state.tail_id) <= Val(db.state.tail_id)]_vars

C4_Witness ==
    /\ pc \in {"page", "item"} /\ gen.direction = "older"
    /\ db.state.tail_id # None /\ state.tail_id # None
    /\ Val(state.tail_id) < Val(db.state.tail_id)

\* C5: when an older fetch is interrupted and the error is not
\* retried, the tail reached by the iterator is the tail stored on the
\* subscription
C5_TailPersisted ==
    [][(pc = "error" /\ pc' = "idle" /\ gen.direction = "older")
          => db'.state.tail_id = state.tail_id]_vars

C7_Resumed ==
    [][(Returned /\ hist.cmd.retried)
          => /\ hist.cmd.want \subseteq (db'.posts \cap db'.present)
             /\ ~hist'.redone]_vars

\* C8, as stated: a re-run of fetch(older, n) after a fetch(older, n) that
\* returned, against an unchanged feed, yields nothing
C8_RerunYieldsNothing == ~(pc = "yielded" /\ hist.cmd.rerun /\ ~hist.cmd.retried)

\* C8, amended: once an older fetch has ended at a page with no next-page
\* URL, no older fetch yields a post
C8_DrainedYieldsNothing ==
    (pc = "yielded" /\ gen.direction = "older") => ~hist.drained

C8_Witness ==
    /\ pc = "idle" /\ hist.drained
    /\ hist.ended = "empty" /\ hist.prev # None

\* C9: the first fetch(newer, None) of a subscription, over a feed of
\* accessible posts, puts every post in the feed and ends with head_id the
\* newest and tail_id the oldest id
C9_FirstFetch ==
    [][(/\ Returned /\ ~hist.cmd.retried
        /\ sf.direction = "newer" /\ sf.n = None
        /\ db.state = EmptyState
        /\ remote # {} /\ Accessible = RemoteIds)
          => /\ RemoteIds \subseteq db'.feed
             /\ db'.state.head_id = Some(SetMax(RemoteIds))
             /\ db'.state.tail_id = Some(SetMin(RemoteIds))]_vars

\* C10: fetch(newer, None) from a stored head h yields exactly the
\* accessible posts with id > h, sets head_id to the newest remote id and
\* leaves the tail alone
C10_NewerFromHead ==
    [][(/\ Returned /\ ~hist.cmd.retried
        /\ sf.direction = "newer" /\ sf.n = None
        /\ db.state.head_id # None /\ db.state.tail_id # None
        /\ remote # {})
          => /\ sf.posts = {id \in Accessible : id > Val(db.state.head_id)}
             /\ db'.state.head_id = Some(SetMax(RemoteIds))
             /\ db'.state.tail_id = db.state.tail_id
             /\ db'.state.tail_datetime = db.state.tail_datetime]_vars

\* C11, as stated: a fetch asked as newer with a count n on a subscription
\* with no tail runs as older with no count: over a feed of more than n
\* accessible posts it yields more than n posts
C11_CountForcedUnlimited ==
    [][(/\ Returned /\ ~hist.cmd.retried
        /\ sf.direction = "newer" /\ sf.n # None
        /\ db.state.tail_id = None
        /\ Cardinality(Accessible) > Val(sf.n))
          => /\ gen.direction = "older" /\ Count(gen) = None
             /\ Cardinality(hist.cmd.call) > Val(sf.n)]_vars

\* C11, amended: a fetch asked as newer with a count n on a subscription
\* with no tail runs as older and keeps the count: it yields at most n posts
C11_CountKept ==
    (/\ pc # "idle" /\ ~hist.cmd.retried
     /\ sf.direction = "newer" /\ sf.n # None
     /\ db.state.tail_id = None)
       => /\ gen.direction = "older" /\ Count(gen) = sf.n
          /\ Cardinality(hist.cmd.call) <= Val(sf.n)

C11_Witness ==
    /\ pc \in {"yielded", "b_yielded", "t_yielded"} /\ ~hist.cmd.retried
    /\ sf.direction = "newer" /\ sf.n # None /\ db.state.tail_id = None
    /\ gen.direction = "older"
    /\ Cardinality(hist.cmd.call) = Val(sf.n)
    /\ Cardinality(Accessible) > Val(sf.n)

\* C12: a fetch asked as newer with a count n on a subscription with a tail
\* ignores n: it yields every accessible post newer than head
C12_CountIgnored ==
    [][(/\ Returned /\ ~hist.cmd.retried
        /\ sf.direction = "newer" /\ sf.n # None
        /\ db.state.tail_id # None)
          => /\ gen.direction = "newer" /\ gen.n = None
             /\ hist.cmd.call =
                  {id \in Accessible :
                      db.state.head_id = None \/ id > Val(db.state.head_id)}]_vars

C14_CommitPerItem ==
    [][/\ (pc = "yielded" /\ pc' \in {"item", "page", "idle"})
          => /\ Val(cur).id \in db'.feed /\ Val(cur).id \in db'.posts
             /\ db'.feed = sess'.feed /\ db'.posts = sess'.posts
       /\ (pc = "item" /\ pc' = "yielded")
          => hist.cmd.call \subseteq (db.feed \cap db.posts)
       /\ Cardinality(sf.posts \ db.feed) <= 1]_vars

C14_Witness ==
    /\ pc = "yielded" /\ Cardinality(hist.cmd.call) > 1
    /\ Val(cur).id \notin db.feed
    /\ (hist.cmd.call \ {Val(cur).id}) \subseteq db.feed

C17_RetryCount ==
    [][(pc = "error" /\ pc' = "page" /\ sf.n # None)
          => sf'.n = Some(Val(hist.cmd.n0) - Cardinality(sf.posts))]_vars

\* C18: the disable policy discards the uncommitted work, commits
\* enabled = false and nothing else, and ends the command
C18_Disable ==
    [][(pc = "error" /\ hist'.ended = "disabled")
          => /\ pc' = "idle"
             /\ db' = [db EXCEPT !.enabled = FALSE]
             /\ sess' = db']_vars

C18_Witness ==
    /\ pc = "idle" /\ hist.ended = "disabled"
    /\ ~db.enabled
    /\ db.feed # {} /\ db.state = EmptyState

\* the step in which a call of fetch ends without error
FetchEnds ==
    /\ hist.ended = "none"
    /\ hist'.ended \in {"count", "nonext", "empty", "boundary"}

C19_SweepGoesOn ==
    [][/\ \A j \in 1..Len(sweep.subs) :
             (sweep'.subs[j].fetches > sweep.subs[j].fetches) => sweep.subs[j].enabled
       /\ (sweep.pc = "prompt" /\ sweep'.pc = "loop")
             => /\ sweep'.subs[sweep.i].staged = 0
                /\ sweep'.subs[sweep.i].feed = sweep.subs[sweep.i].feed
                /\ sweep'.i = sweep.i + 1
       /\ sweep'.pc = "done"
             => \A j \in 1..Len(sweep.subs) :
                   (sweep.subs[j].enabled \/ sweep.subs[j].was)
                      <=> sweep.subs[j].fetches > 0]_vars

C19_Witness ==
    /\ sweep.pc = "done" /\ Len(sweep.subs) > 1
    /\ sweep.subs[1].failed
    /\ sweep.subs[2].fetches > 0
    /\ \E j \in 1..Len(sweep.subs) :
          ~sweep.subs[j].enabled /\ ~sweep.subs[j].was /\ sweep.subs[j].fetches = 0

\* C20: in the update-all loop the user is never asked what to do about a
\* failing subscription
C20_NoPrompt == sweep.prompts = 0

(* ---- properties of _to_remote_post --------------------------------------- *)
\* the Files the RemotePost of the post had before the last call
FilesBefore ==
    LET found == Query(lib.last.before, lib.post.id)
    IN IF found = {} THEN <<>> ELSE lib.last.before.posts[SetMin(found)].files

\* the Files the RemotePost of the post has after the last call
FilesAfter == Val(lib.last.did).remote_post.files

\* before, after the last call the File of position p had its original, its
\* thumbnail
Had(files, p, half) ==
    \E k \in 1..Len(files) :
       /\ files[k].metadata_ = FileId(lib.post.type, lib.post.atts[p])
       /\ IF half = "orig" THEN files[k].present ELSE files[k].thumb_present

Positions == 1..Len(lib.post.atts)

\* C21: in the session and in the database there is at most one RemotePost
\* for the (source, original_id) of the remote post, whatever calls, commits,
\* retries and rollbacks were made
C21_NaturalKey ==
    \A s \in {lib.sess, lib.db} :
       \A j, k \in 1..Len(s.posts) :
          s.posts[j].original_id = s.posts[k].original_id => j = k

C21_Witness ==
    /\ lib.calls > 1
    /\ lib.last.did # None /\ ~Val(lib.last.did).raised
    /\ Query(lib.last.before, lib.post.id) # {}
    /\ Query(lib.db, lib.post.id) # {}
    /\ Len(lib.sess.posts) = 1

\* C22: a call that does not raise downloads the original of a position
\* exactly when its File had no original and preview is off, and the thumbnail
\* exactly when its File had no thumbnail and the remote post offers one; a
\* call that raises downloads nothing else; a File that had both is neither
\* downloaded nor imported, and the flags of a File that is not imported stay
C22_MissingHalves ==
    lib.last.did # None =>
       LET did == Val(lib.last.did)
           offered == lib.post.type # "file" \/ lib.post.cover
           wantOrig == {p \in Positions : ~Had(FilesBefore, p, "orig") /\ ~lib.last.preview}
           wantThumb == {p \in Positions : ~Had(FilesBefore, p, "thumb") /\ offered}
       IN /\ did.orig \subseteq wantOrig /\ did.thumb \subseteq wantThumb
          /\ ~did.raised => did.orig = wantOrig /\ did.thumb = wantThumb
          /\ did.imported = did.orig \cup did.thumb
          /\ \A p \in Positions :
                /\ Had(FilesBefore, p, "orig") /\ Had(FilesBefore, p, "thumb")
                      => p \notin did.orig \cup did.thumb \cup did.imported
                /\ p \notin did.imported
                      => /\ Had(FilesAfter, p, "orig") <=> Had(FilesBefore, p, "orig")
                         /\ Had(FilesAfter, p, "thumb") <=> Had(FilesBefore, p, "thumb")

C22_Witness ==
    /\ lib.last.did # None /\ ~Val(lib.last.did).raised
    /\ \E p, q \in Positions :
          /\ Had(FilesBefore, p, "orig") /\ Had(FilesBefore, p, "thumb")
          /\ ~Had(FilesBefore, q, "orig")
          /\ q \in Val(lib.last.did).orig
          /\ p \notin Val(lib.last.did).imported

C24_PreviewThenFull ==
    lib.last.did # None =>
       LET did == Val(lib.last.did)
       IN /\ lib.last.preview => did.orig = {}
          /\ (~lib.last.preview /\ ~did.raised)
                => did.orig = {p \in Positions : ~Had(FilesBefore, p, "orig")}
          /\ \A p \in did.thumb : ~Had(FilesBefore, p, "thumb")
          /\ \A p \in Positions :
                Had(FilesBefore, p, "thumb") => Had(FilesAfter, p, "thumb")

C24_Witness ==
    /\ lib.last.did # None /\ ~Val(lib.last.did).raised
    /\ ~lib.last.preview
    /\ Positions # {}
    /\ \A p \in Positions :
          /\ Had(FilesBefore, p, "thumb") /\ ~Had(FilesBefore, p, "orig")
          /\ p \in Val(lib.last.did).orig
          /\ Had(FilesAfter, p, "orig")
    /\ Val(lib.last.did).thumb = {}

\* C25: a call of _to_remote_post changes the session and leaves the
\* committed rows as they were; the committed rows change only when fetch or
\* the command commits, and then they become the rows of the session
C25_NeverCommits ==
    [][/\ lib'.calls > lib.calls => lib'.db = lib.db
       /\ lib'.db # lib.db
             => /\ lib.pc \in {"yielded", "downloaded"} /\ lib'.pc = "idle"
                /\ lib'.db = lib.sess]_vars

C25_Witness ==
    /\ lib.pc = "yielded"
    /\ lib.last.did # None
    /\ lib.sess # lib.last.before
    /\ lib.sess # lib.db
    /\ lib.db = NoRows

\* C26: no two Related links of a RemotePost carry the same url
C26_RelatedDeduplicated ==
    \A s \in {lib.sess, lib.db} :
       \A k \in 1..Len(s.posts) :
          Cardinality(Range(s.posts[k].related)) = Len(s.posts[k].related)

\* C27: a page request that asks for the posts older than the last processed
\* post X carries maxId = X - 1: X is the stored tail_id in the first request
\* of a walk and the last post of the previous page in the following ones
C27_MaxIdRule ==
    [][(pc = "page" /\ pc' \in {"item", "idle"} /\ gen.max_id # None)
          => LET X == IF gen.first_iteration THEN Val(state.tail_id)
                      ELSE gen.posts[Len(gen.posts)].id
             IN /\ PageParams(gen).maxId = Some(X - 1)
                /\ pc' = "item" => gen'.params = Some(PageParams(gen))]_vars

C29_Terminates ==
    /\ (pc # "idle") ~> (pc = "idle")
    /\ [][/\ (pc # "idle" /\ pc' = "idle")
                => \/ /\ hist'.ended = "empty" /\ pc = "page"
                      /\ Len(ListCreator(PageParams(gen)).items) = 0
                   \/ /\ hist'.ended = "nonext" /\ pc \in {"item", "yielded"}
                      /\ ~gen.nextUrl /\ gen.i = Len(gen.posts)
                   \/ /\ hist'.ended = "boundary" /\ pc = "item"
                      /\ gen.direction = "newer" /\ state.head_id # None
                      /\ gen.posts[gen.i].id <= Val(state.head_id)
                      /\ \A k \in 1..(gen.i - 1) : gen.posts[k].id > Val(state.head_id)
                   \/ /\ hist'.ended = "count" /\ pc \in {"item", "yielded"}
                      /\ gen.n # None /\ gen.total + 1 = Val(gen.n)
          /\ (gen'.direction = "newer" /\ hist'.cmd.head0 # None)
                => \A id \in hist'.cmd.call : id > Val(hist'.cmd.head0)]_vars

C29_Witness ==
    /\ pc = "idle"
    /\ hist.ended = "boundary"
    /\ ncmd > 1
    /\ Cardinality(db.feed) > PAGE_LIMIT

\* C30: at a post of unknown type fetch raises: the post is not yielded, the
\* cursor and the committed rows stay as they were; and the call of fetch a
\* retry makes comes to the same post again
C30_UnknownTypeFatal ==
    [][/\ (pc = "item" /\ UnknownType(gen, gen.posts[gen.i]))
             => /\ pc' = "error"
                /\ state' = state /\ first_id' = first_id /\ db' = db
                /\ sf'.posts = sf.posts /\ cur' = None
                /\ gen.posts[gen.i].id \notin sf.posts \cup sess'.feed
       /\ (pc = "error" /\ pc' = "page" /\ hist.cmd.unknown # None)
             => Val(hist.cmd.unknown) \in Walk(gen', {})]_vars

\* C39: in the stored state of the subscription, tail_id set implies head_id
\* set, and head_id is not less than tail_id
C39_CursorWellFormed ==
    \A s \in {db, sess} :
       s.state.tail_id # None
          => /\ s.state.head_id # None
             /\ Val(s.state.head_id) >= Val(s.state.tail_id)

C33_PatreonBoundary ==
    [][(pc = "pt_item" /\ gen.head_timestamp # None
          /\ gen.posts[gen.i].publishedDatetime <= Val(gen.head_timestamp))
         => pc' = "returned"]_vars

\* C35: the Patreon walk comes to its end for every finite feed, and yields no
\* post twice
C35_PatreonTerminates ==
    /\ (pc \in {"pt_page", "pt_item", "pt_yielded"}) ~> (pc = "returned")
    /\ [][(pc = "pt_item" /\ pc' = "pt_yielded")
             => gen.posts[gen.i].id \notin hist.cmd.call]_vars

\* C34: an older fetch of the Pixiv BookmarkIterator and of the Nijie
\* UserIterator yields no item whose id is not less than the stored tail id:
\* such an item is passed over and the walk goes on with the next item
C34_OlderFilter ==
    [][(/\ pc \in {"b_item", "n_item"}
        /\ gen.direction = "older"
        /\ db.state.tail_id # None
        /\ gen.posts[gen.i].id >= Val(db.state.tail_id))
          => /\ pc' \in {"b_item", "b_page", "n_item", "n_page"}
             /\ sf'.posts = sf.posts
             /\ sess' = sess
             /\ gen'.i = IF gen.i < Len(gen.posts) THEN gen.i + 1 ELSE gen.i]_vars

C34_Witness ==
    /\ plugin = "pixiv" /\ pc = "b_yielded"
    /\ gen.direction = "older" /\ db.state.tail_id # None
    /\ state.offset > db.state.offset
    /\ Val(cur).id < Val(db.state.tail_id)
    /\ \E b \in remote : b.id > Val(db.state.tail_id)

\* C36: in src/twitter/twitter.py a fetch(newer, n) on an iterator with no
\* tail_id runs as an older fetch: when it ends after at least one tweet,
\* tail_id is the oldest tweet processed and head_id the newest
C36_LegacyDowngrade ==
    (/\ plugin = "twitter_legacy" /\ pc = "returned"
     /\ sf.direction = "newer" /\ db.state.tail_id = None
     /\ hist.cmd.call # {})
       => /\ sess.state.tail_id = Some(SetMin(hist.cmd.call))
          /\ sess.state.head_id = Some(SetMax(hist.cmd.call))

\* C37: where a Fantia fetch is interrupted and where it ends, head_id and
\* tail_id each name a post that was yielded: a post of this command or of
\* the feed
C37_FantiaCursorsProcessed ==
    (plugin = "fantia" /\ pc \in {"error", "returned"})
       => \A c \in {state.head_id, state.tail_id} :
             c # None => Val(c) \in sf.posts \cup sess.feed

\* C38: after an error safe_fetch comes back to the call of fetch only from
\* the prompt, with the answer retry; and a keyboard interrupt in fetch is
\* raised again at once
C38_RetryOnlyOnAnswer ==
    [][/\ (safe.pc # "loop" /\ safe'.pc = "loop")
             => (safe.pc = "prompt" /\ safe'.answer = "y")
       /\ safe'.pc = "interrupted" => (safe.pc = "fetching" /\ safe'.calls = safe.calls)]_vars

\* C32: a commit or a rollback made for one subscription leaves the
\* uncommitted post of the other subscription's iterator as it was: staged in
\* the session and not committed
C32_Isolation ==
    [][\A j \in 1..2 :
          (its[j].pc = "yielded" /\ its'[j] = its[j])
             => /\ Current(j) \in sess'.posts
                /\ Current(j) \notin db'.posts]_vars
====
